---- MODULE Spec2Model ----
(***************************************************************************)
(* TileDB: the ThreadPool (tiledb/sm/misc/thread_pool.{h,cc}), the         *)
(* parallel read of the virtual filesystem (tiledb/sm/filesystem/vfs.cc)   *)
(* and the dispatch of the VFS functions over its backends.                *)
(*                                                                         *)
(* The pool is modelled at the granularity of its synchronisation: every   *)
(* acquisition of queue_mutex_ is a step, every critical section is a step *)
(* that ends by releasing the mutex, and task() runs outside the mutex.    *)
(* queue_cv_ is the set of threads blocked in wait(); a notified thread is *)
(* taken out of the set and has to take the mutex again before it          *)
(* re-evaluates its predicate.                                             *)
(***************************************************************************)
EXTENDS Integers, Sequences, FiniteSets, TLC

\* Largest pool size ThreadPool(num_threads) is constructed with.
MaxThreads == 2

\* Number of enqueue calls the clients make on one pool.
MaxTasks == 3

\* Largest pool size a VFS is initialised with (vfs_params.num_parallel_operations_).
MaxReadThreads == 3

\* Largest nbytes and largest offset of a VFS::read call.
MaxBytes == 4

MaxOffset == 1

\* The non-zero value of parallel_read_threshold_ that is tried.
Threshold == 2

\* Largest size a file grows to, and largest buffer_size of a VFS::write.
MaxFileSize == 1

\* The largest number of cells the caller's buffer of a read query holds.
MaxCapacity == 3

\* The longest schema an iterator runs over, and the next calls a caller
\* makes beyond the end of one.
MaxElems == 3
MaxOverrun == 2

\* uint64_t arithmetic wraps at 2^64. The model keeps a narrower word, far
\* above every size it uses, so that the same wraps occur.
WordBits == 16

Word == 2 ^ WordBits

VARIABLES
    num_threads,        \* threads_.size()
    should_terminate_,  \* ThreadPool::should_terminate_
    queue_mutex_,       \* {} when free, {t} when thread t holds it
    queue_cv_,          \* threads blocked in queue_cv_.wait, not yet notified
    task_queue_,        \* std::queue of task ids, front first
    pc,                 \* position of every thread
    cur,                \* the task a worker holds in its local `task`
    nEnq,               \* pushes made so far; task ids are 1..nEnq in push order
    execs,              \* per task, the number of times task() ran to its end
    startOrder,         \* the ids in the order workers took them off the queue
    snap,               \* per client, nEnq when its wait_all / destructor call began
    in_dtor,            \* the owner is inside ~ThreadPool
    aborted,            \* std::terminate was called
    parallel_read_threshold_,  \* VFS::parallel_read_threshold_
    file,               \* the bytes of the file at uri; << >> with isFile FALSE
    isFile,             \* is_file(uri)
    req,                \* the arguments of the VFS::read call in progress
    shard,              \* per task id, the values its closure captured
    handle,             \* per task id, the state of the future enqueue returned
    buffer,             \* the caller's buffer
    ret,                \* the Status VFS::read returned
    reads,              \* the backend reads issued so far by the VFS::read call
    HAVE_HDFS,          \* the build has HDFS support
    HAVE_S3,            \* the build has S3 support
    fs,                 \* per URI, what the backend holds there
    op,                 \* the VFS call made last, with its arguments
    pre,                \* fs when that call began
    calls,              \* the backend calls that call made, in order
    st,                 \* the Status that call returned
    fd,                 \* the caller's filelock_t after that call
    schema,             \* the schema's attributes (or dimensions), in insertion order
    it,                 \* the iterator struct the caller holds, NoIter when none
    nexts,              \* next calls since the creation or the last first
    restarted,          \* first was called on this iterator
    touched,            \* a call has accessed memory released before
    reported,           \* done has reported 1 since the creation or the last first
    out,                \* what the last iterator call handed back
    ctx,                \* the tiledb_ctx_t the caller holds, NoCtx when none
    handles,            \* per kind of runtime handle, its struct and the frees it got
    latest,             \* the failure of the latest call on ctx that failed
    oom,                \* a malloc has returned nullptr in a call on ctx
    cres,               \* what the last call on ctx handed back
    query,              \* the tiledb_query_t of the read example, NoQuery when none
    submitted,          \* per submission so far, the cells it returned and the status
    loop_pc             \* where the example's do-while loop stands

poolVars == <<num_threads, should_terminate_, queue_mutex_, queue_cv_, task_queue_,
              pc, cur, nEnq, execs, startOrder, snap, in_dtor, aborted>>

fsVars == <<HAVE_HDFS, HAVE_S3, fs, op, pre, calls, st, fd>>

vfsVars == <<parallel_read_threshold_, file, isFile, req, shard, handle, buffer, ret,
             reads, fsVars>>

iterVars == <<schema, it, nexts, restarted, touched, reported, out>>

ctxVars == <<ctx, handles, latest, oom, cres>>

qryVars == <<query, submitted, loop_pc>>

apiVars == <<iterVars, ctxVars, qryVars>>

vars == <<poolVars, vfsVars, apiVars>>

\* The worker threads a pool may have, and the two client threads: the owner
\* (which also destroys the pool) and a peer that shares the pool with it.
Max(a, b) == IF a >= b THEN a ELSE b
Min(a, b) == IF a <= b THEN a ELSE b
WorkerIds == 1..Max(MaxThreads, MaxReadThreads)
Owner == Max(MaxThreads, MaxReadThreads) + 1
Peer == Max(MaxThreads, MaxReadThreads) + 2
Clients == {Owner, Peer}
Threads == WorkerIds \cup Clients
Workers == 1..num_threads
TaskIds == 1..Max(MaxTasks, MaxReadThreads)

(***************************************************************************)
(* Status: a category and a message. A message that ends with a URI is     *)
(* kept without it; a URI inside a message is written <uri>.               *)
(***************************************************************************)
Ok == [category |-> "Ok", message |-> ""]
Error(msg) == [category |-> "Error", message |-> msg]
VFSError(msg) == [category |-> "VFSError", message |-> msg]
IOError(msg) == [category |-> "IOError", message |-> msg]

\* No Status yet: the call has not returned.
NoStatus == [category |-> "none", message |-> ""]

\* A future whose task has not finished.
Pending == [category |-> "pending", message |-> ""]

\* The Status of a backend call that failed.
BackendError == IOError("backend call failed")

(***************************************************************************)
(* std::condition_variable and std::queue                                  *)
(***************************************************************************)

\* notify_one: one of the blocked threads, any of them, is released; none if
\* no thread is blocked. The value is the set of possible new waiter sets.
NotifyOne(waiters) ==
    IF waiters = {} THEN {waiters} ELSE {waiters \ {t} : t \in waiters}

\* notify_all: every blocked thread is released.
NotifyAll(waiters) == {}

\* A front() that hands out the newest element.
FrontNewest(q) == q[Len(q)]

\* std::queue::front
Front(q) == Head(q)

\* A pop() that leaves the element in the queue.
PopKeep(q) == q

\* std::queue::pop
Pop(q) == Tail(q)

\* std::queue::push
Push(q, id) == Append(q, id)

\* The predicate a worker waits for.
WorkerPred == should_terminate_ \/ task_queue_ /= << >>

\* The predicate wait_all waits for.
WaitAllPred == task_queue_ = << >>

\* A destructor that does not drain the queue first.
DtorEntryNoDrain == "dt_lock"

\* What ~ThreadPool does first: it calls wait_all().
DtorEntry == "wa_lock"

(***************************************************************************)
(* ThreadPool::ThreadPool                                                  *)
(***************************************************************************)
PoolInit(n) ==
    /\ num_threads = n
    /\ should_terminate_ = FALSE
    /\ queue_mutex_ = {}
    /\ queue_cv_ = {}
    /\ task_queue_ = << >>
    /\ pc = [t \in Threads |->
               IF t \in Clients THEN "idle"
               ELSE IF t <= n THEN "lock" ELSE "absent"]
    /\ cur = [w \in WorkerIds |-> 0]
    /\ nEnq = 0
    /\ execs = [id \in TaskIds |-> 0]
    /\ startOrder = << >>
    /\ snap = [c \in Clients |-> 0]
    /\ in_dtor = FALSE
    /\ aborted = FALSE

\* The object can be used: the process runs and the destructor has not returned.
Alive == ~aborted /\ pc[Owner] /= "dt_done"

(***************************************************************************)
(* ThreadPool::worker                                                      *)
(***************************************************************************)

\* unique_lock lck(pool.queue_mutex_), at the top of the loop or when the
\* wait returns after a notification.
WorkerLock(w) ==
    /\ Alive
    /\ w \in Workers
    /\ \/ pc[w] = "lock"
       \/ pc[w] = "wait" /\ w \notin queue_cv_
    /\ queue_mutex_ = {}
    /\ queue_mutex_' = {w}
    /\ pc' = [pc EXCEPT ![w] = "cs"]
    /\ UNCHANGED <<num_threads, should_terminate_, queue_cv_, task_queue_, cur,
                   nEnq, execs, startOrder, snap, in_dtor, aborted, vfsVars, apiVars>>

\* queue_cv_.wait: the predicate is false, the mutex is released and the
\* worker blocks.
WorkerWait(w) ==
    /\ Alive
    /\ w \in Workers
    /\ pc[w] = "cs"
    /\ ~WorkerPred
    /\ queue_mutex_' = {}
    /\ queue_cv_' = queue_cv_ \cup {w}
    /\ pc' = [pc EXCEPT ![w] = "wait"]
    /\ UNCHANGED <<num_threads, should_terminate_, task_queue_, cur, nEnq, execs,
                   startOrder, snap, in_dtor, aborted, vfsVars, apiVars>>

\* if (pool.should_terminate_) break;
WorkerBreak(w) ==
    /\ Alive
    /\ w \in Workers
    /\ pc[w] = "cs"
    /\ WorkerPred
    /\ should_terminate_
    /\ queue_mutex_' = {}
    /\ pc' = [pc EXCEPT ![w] = "exited"]
    /\ UNCHANGED <<num_threads, should_terminate_, queue_cv_, task_queue_, cur,
                   nEnq, execs, startOrder, snap, in_dtor, aborted, vfsVars, apiVars>>

\* A worker that takes a task although should_terminate_ is set.
WorkerPopAfterTerminate(w) ==
    /\ Alive
    /\ w \in Workers
    /\ pc[w] = "cs"
    /\ WorkerPred
    /\ task_queue_ /= << >>
    /\ cur' = [cur EXCEPT ![w] = Front(task_queue_)]
    /\ startOrder' = Append(startOrder, Front(task_queue_))
    /\ task_queue_' = Pop(task_queue_)
    /\ queue_cv_' = NotifyAll(queue_cv_)
    /\ queue_mutex_' = {}
    /\ pc' = [pc EXCEPT ![w] = "run"]
    /\ UNCHANGED <<num_threads, should_terminate_, nEnq, execs, snap, in_dtor,
                   aborted, vfsVars, apiVars>>

\* A worker that keeps the mutex while it runs the task.
WorkerPopKeepLock(w) ==
    /\ Alive
    /\ w \in Workers
    /\ pc[w] = "cs"
    /\ WorkerPred
    /\ ~should_terminate_
    /\ cur' = [cur EXCEPT ![w] = Front(task_queue_)]
    /\ startOrder' = Append(startOrder, Front(task_queue_))
    /\ task_queue_' = Pop(task_queue_)
    /\ queue_cv_' = NotifyAll(queue_cv_)
    /\ pc' = [pc EXCEPT ![w] = "run"]
    /\ UNCHANGED <<num_threads, should_terminate_, queue_mutex_, nEnq, execs,
                   snap, in_dtor, aborted, vfsVars, apiVars>>

\* task = front(); pop(); notify_all(); and the end of the lock's scope.
WorkerPop(w) ==
    /\ Alive
    /\ w \in Workers
    /\ pc[w] = "cs"
    /\ WorkerPred
    /\ ~should_terminate_
    /\ cur' = [cur EXCEPT ![w] = Front(task_queue_)]
    /\ startOrder' = Append(startOrder, Front(task_queue_))
    /\ task_queue_' = Pop(task_queue_)
    /\ queue_cv_' = NotifyAll(queue_cv_)
    /\ queue_mutex_' = {}
    /\ pc' = [pc EXCEPT ![w] = "run"]
    /\ UNCHANGED <<num_threads, should_terminate_, nEnq, execs, snap, in_dtor,
                   aborted, vfsVars, apiVars>>

\* task(): the closure runs to its end and the worker goes round the loop.
WorkerRun(w) ==
    /\ Alive
    /\ w \in Workers
    /\ pc[w] = "run"
    /\ cur[w] \notin DOMAIN shard
    /\ execs' = [execs EXCEPT ![cur[w]] = @ + 1]
    /\ cur' = [cur EXCEPT ![w] = 0]
    /\ pc' = [pc EXCEPT ![w] = "lock"]
    /\ UNCHANGED <<num_threads, should_terminate_, queue_mutex_, queue_cv_,
                   task_queue_, nEnq, startOrder, snap, in_dtor, aborted, vfsVars, apiVars>>

\* task(): the closure throws. Nothing in worker() catches, the exception
\* leaves the thread's function and std::terminate ends the process.
WorkerThrow(w) ==
    /\ Alive
    /\ w \in Workers
    /\ pc[w] = "run"
    /\ cur[w] \notin DOMAIN shard
    /\ aborted' = TRUE
    /\ UNCHANGED <<num_threads, should_terminate_, queue_mutex_, queue_cv_,
                   task_queue_, pc, cur, nEnq, execs, startOrder, snap, in_dtor,
                   vfsVars, apiVars>>

\* A wait may return without a notification.
SpuriousWake(t) ==
    /\ Alive
    /\ t \in queue_cv_
    /\ queue_cv_' = queue_cv_ \ {t}
    /\ UNCHANGED <<num_threads, should_terminate_, queue_mutex_, task_queue_, pc,
                   cur, nEnq, execs, startOrder, snap, in_dtor, aborted, vfsVars, apiVars>>

(***************************************************************************)
(* ThreadPool::enqueue                                                     *)
(***************************************************************************)

\* unique_lock lck(queue_mutex_)
EnqueueLock(c) ==
    /\ Alive
    /\ c \in Clients
    /\ pc[c] = "idle"
    /\ nEnq < MaxTasks
    /\ queue_mutex_ = {}
    /\ queue_mutex_' = {c}
    /\ pc' = [pc EXCEPT ![c] = "enq_cs"]
    /\ UNCHANGED <<num_threads, should_terminate_, queue_cv_, task_queue_, cur,
                   nEnq, execs, startOrder, snap, in_dtor, aborted, vfsVars, apiVars>>

\* task_queue_.push(function); queue_cv_.notify_one(); and the end of the
\* lock's scope.
EnqueuePush(c) ==
    /\ Alive
    /\ c \in Clients
    /\ pc[c] = "enq_cs"
    /\ nEnq' = nEnq + 1
    /\ task_queue_' = Push(task_queue_, nEnq + 1)
    /\ queue_cv_' \in NotifyOne(queue_cv_)
    /\ queue_mutex_' = {}
    /\ pc' = [pc EXCEPT ![c] = "idle"]
    /\ UNCHANGED <<num_threads, should_terminate_, cur, execs, startOrder, snap,
                   in_dtor, aborted, vfsVars, apiVars>>

(***************************************************************************)
(* ThreadPool::wait_all                                                    *)
(***************************************************************************)

\* A client calls wait_all(). snap[c] remembers which tasks were enqueued
\* before the call.
WaitAllCall(c) ==
    /\ Alive
    /\ c \in Clients
    /\ pc[c] = "idle"
    /\ snap' = [snap EXCEPT ![c] = nEnq]
    /\ pc' = [pc EXCEPT ![c] = "wa_lock"]
    /\ UNCHANGED <<num_threads, should_terminate_, queue_mutex_, queue_cv_,
                   task_queue_, cur, nEnq, execs, startOrder, in_dtor, aborted,
                   vfsVars, apiVars>>

\* unique_lock lck(queue_mutex_), on entry or when the wait returns.
WaitAllLock(c) ==
    /\ Alive
    /\ c \in Clients
    /\ \/ pc[c] = "wa_lock"
       \/ pc[c] = "wa_wait" /\ c \notin queue_cv_
    /\ queue_mutex_ = {}
    /\ queue_mutex_' = {c}
    /\ pc' = [pc EXCEPT ![c] = "wa_cs"]
    /\ UNCHANGED <<num_threads, should_terminate_, queue_cv_, task_queue_, cur,
                   nEnq, execs, startOrder, snap, in_dtor, aborted, vfsVars, apiVars>>

\* queue_cv_.wait: the queue is not empty, the mutex is released and the
\* caller blocks.
WaitAllWait(c) ==
    /\ Alive
    /\ c \in Clients
    /\ pc[c] = "wa_cs"
    /\ ~WaitAllPred
    /\ queue_mutex_' = {}
    /\ queue_cv_' = queue_cv_ \cup {c}
    /\ pc' = [pc EXCEPT ![c] = "wa_wait"]
    /\ UNCHANGED <<num_threads, should_terminate_, task_queue_, cur, nEnq, execs,
                   startOrder, snap, in_dtor, aborted, vfsVars, apiVars>>

\* The queue is empty: wait_all returns, to its caller or into ~ThreadPool.
WaitAllReturn(c) ==
    /\ Alive
    /\ c \in Clients
    /\ pc[c] = "wa_cs"
    /\ WaitAllPred
    /\ queue_mutex_' = {}
    /\ pc' = [pc EXCEPT ![c] = IF c = Owner /\ in_dtor THEN "dt_lock" ELSE "wa_ret"]
    /\ UNCHANGED <<num_threads, should_terminate_, queue_cv_, task_queue_, cur,
                   nEnq, execs, startOrder, snap, in_dtor, aborted, vfsVars, apiVars>>

\* The caller goes on after wait_all.
WaitAllDone(c) ==
    /\ Alive
    /\ c \in Clients
    /\ pc[c] = "wa_ret"
    /\ pc' = [pc EXCEPT ![c] = "idle"]
    /\ snap' = [snap EXCEPT ![c] = 0]
    /\ UNCHANGED <<num_threads, should_terminate_, queue_mutex_, queue_cv_,
                   task_queue_, cur, nEnq, execs, startOrder, in_dtor,
                   aborted, vfsVars, apiVars>>

(***************************************************************************)
(* ThreadPool::~ThreadPool                                                 *)
(***************************************************************************)

\* The owner destroys the pool. snap[Owner] remembers which tasks were
\* enqueued before the destructor was invoked.
DtorCall ==
    /\ Alive
    /\ pc[Owner] = "idle"
    /\ in_dtor' = TRUE
    /\ snap' = [snap EXCEPT ![Owner] = nEnq]
    /\ pc' = [pc EXCEPT ![Owner] = DtorEntry]
    /\ UNCHANGED <<num_threads, should_terminate_, queue_mutex_, queue_cv_,
                   task_queue_, cur, nEnq, execs, startOrder, aborted, vfsVars, apiVars>>

\* unique_lock lck(queue_mutex_)
DtorLock ==
    /\ Alive
    /\ pc[Owner] = "dt_lock"
    /\ queue_mutex_ = {}
    /\ queue_mutex_' = {Owner}
    /\ pc' = [pc EXCEPT ![Owner] = "dt_cs"]
    /\ UNCHANGED <<num_threads, should_terminate_, queue_cv_, task_queue_, cur,
                   nEnq, execs, startOrder, snap, in_dtor, aborted, vfsVars, apiVars>>

\* should_terminate_ = true; queue_cv_.notify_all(); and the end of the
\* lock's scope.
DtorTerminate ==
    /\ Alive
    /\ pc[Owner] = "dt_cs"
    /\ should_terminate_' = TRUE
    /\ queue_cv_' = NotifyAll(queue_cv_)
    /\ queue_mutex_' = {}
    /\ pc' = [pc EXCEPT ![Owner] = "dt_join"]
    /\ UNCHANGED <<num_threads, task_queue_, cur, nEnq, execs, startOrder, snap,
                   in_dtor, aborted, vfsVars, apiVars>>

\* for (auto& t : threads_) t.join(); returns when every worker has left
\* worker().
DtorJoin ==
    /\ Alive
    /\ pc[Owner] = "dt_join"
    /\ \A w \in Workers : pc[w] = "exited"
    /\ pc' = [pc EXCEPT ![Owner] = "dt_done"]
    /\ UNCHANGED <<num_threads, should_terminate_, queue_mutex_, queue_cv_,
                   task_queue_, cur, nEnq, execs, startOrder, snap, in_dtor,
                   aborted, vfsVars, apiVars>>

(***************************************************************************)
(* The pool used by two client threads                                     *)
(***************************************************************************)
\* The filesystem part of the VFS is not used.
NoFs ==
    /\ HAVE_HDFS = FALSE
    /\ HAVE_S3 = FALSE
    /\ fs = << >>
    /\ op = << >>
    /\ pre = << >>
    /\ calls = << >>
    /\ st = NoStatus
    /\ fd = "untouched"

\* No VFS::read is in progress.
NoRead ==
    /\ parallel_read_threshold_ = 0
    /\ file = << >>
    /\ isFile = FALSE
    /\ req = << >>
    /\ shard = << >>
    /\ handle = << >>
    /\ buffer = << >>
    /\ ret = NoStatus
    /\ reads = {}

NoVfs == NoRead /\ NoFs

\* No iterator exists and no iterator call was made.
NoIter == [kind |-> "none"]
NoOut == [name |-> "none"]

NoIters ==
    /\ schema = << >>
    /\ it = NoIter
    /\ nexts = 0
    /\ restarted = FALSE
    /\ touched = FALSE
    /\ reported = FALSE
    /\ out = NoOut

\* ctx->last_error_ = nullptr, and an err the call has not written.
NullError == [category |-> "nullptr", message |-> ""]
Unset == [category |-> "unset", message |-> ""]

\* No context exists.
NoCtx == [storage_manager_ |-> "none", last_error_ |-> NullError]
NoRes == [name |-> "none", rc |-> "TILEDB_OK", err |-> Unset, expected |-> NullError]
HandleKinds == {"array", "array_iterator", "metadata", "metadata_iterator"}
NoHandle == [state |-> "none", frees |-> 0]

NoCtxs ==
    /\ ctx = NoCtx
    /\ handles = [k \in HandleKinds |-> NoHandle]
    /\ latest = NullError
    /\ oom = FALSE
    /\ cres = NoRes

\* No query exists.
NoQuery == [status |-> "none"]

NoQueries ==
    /\ query = NoQuery
    /\ submitted = << >>
    /\ loop_pc = "none"

NoApi == NoIters /\ NoCtxs /\ NoQueries

Init ==
    /\ \E n \in 1..MaxThreads : PoolInit(n)
    /\ NoVfs
    /\ NoApi

WorkerStep(w) ==
    \/ WorkerLock(w)
    \/ WorkerWait(w)
    \/ WorkerBreak(w)
    \/ WorkerPop(w)
    \/ WorkerRun(w)
    \/ WorkerThrow(w)

ClientStep(c) ==
    \/ EnqueueLock(c)
    \/ EnqueuePush(c)
    \/ WaitAllCall(c)
    \/ WaitAllLock(c)
    \/ WaitAllWait(c)
    \/ WaitAllReturn(c)
    \/ WaitAllDone(c)

DtorStep ==
    \/ DtorCall
    \/ DtorLock
    \/ DtorTerminate
    \/ DtorJoin

Next ==
    \/ \E w \in WorkerIds : WorkerStep(w)
    \/ \E c \in Clients : ClientStep(c)
    \/ DtorStep
    \/ \E t \in Threads : SpuriousWake(t)

Spec == Init /\ [][Next]_vars

(***************************************************************************)
(* Scheduling: a thread that can take a step inside a call it has begun    *)
(* takes one. Nothing obliges a client to begin a call, and a wait need    *)
(* not return spuriously. The mutex is granted to a thread that keeps      *)
(* asking for it.                                                          *)
(***************************************************************************)
Running(t) ==
    \/ t \in WorkerIds /\ (WorkerWait(t) \/ WorkerBreak(t) \/ WorkerPop(t)
                           \/ WorkerRun(t) \/ WorkerThrow(t))
    \/ t \in Clients /\ (EnqueuePush(t) \/ WaitAllWait(t) \/ WaitAllReturn(t)
                         \/ WaitAllDone(t))
    \/ t = Owner /\ (DtorTerminate \/ DtorJoin)

Locking(t) ==
    \/ t \in WorkerIds /\ WorkerLock(t)
    \/ t \in Clients /\ WaitAllLock(t)
    \/ t = Owner /\ DtorLock

Fairness == \A t \in Threads : WF_vars(Running(t)) /\ SF_vars(Locking(t))

FairSpec == Spec /\ Fairness

(***************************************************************************)
(* Properties                                                              *)
(***************************************************************************)
Range(q) == {q[i] : i \in 1..Len(q)}

Queued(id) == id \in Range(task_queue_)

Started(id) == id \in Range(startOrder)

Finished(id) == execs[id] >= 1

\* A worker is idle when it holds no task.
Idle(w) == cur[w] = 0

\* The task was pushed before the owner invoked the destructor.
LiveEnqueued(id) == id <= nEnq /\ (in_dtor => id <= snap[Owner])

\* C1: when wait_all() returns, every task enqueued before the call has
\* finished executing.
WaitAllMeansFinished ==
    \A c \in Clients :
        pc[c] = "wa_ret" => \A id \in 1..snap[c] : Finished(id)

\* C2: no task is taken off the queue twice or run twice, and whenever the
\* queue is empty and every worker is idle the completed executions are as
\* many as the enqueue calls.
ExactlyOnce ==
    /\ \A id \in TaskIds : execs[id] <= 1
    /\ \A i, j \in 1..Len(startOrder) : startOrder[i] = startOrder[j] => i = j
    /\ (task_queue_ = << >> /\ \A w \in Workers : Idle(w))
          => \A id \in TaskIds : execs[id] = (IF id <= nEnq THEN 1 ELSE 0)

ExactlyOnceWitness ==
    /\ num_threads >= 2
    /\ nEnq = MaxTasks
    /\ task_queue_ = << >>
    /\ \A w \in Workers : Idle(w)
    /\ \A id \in TaskIds : execs[id] = 1

\* C3: every task enqueued on a live pool is eventually taken off the queue
\* by a worker.
TaskEventuallyStarts ==
    \A id \in TaskIds : (Queued(id) /\ LiveEnqueued(id)) ~> Started(id)

\* The wake-up that C3 asks about is not lost: while the process runs and
\* the pool is not terminating, a non-empty queue always has a worker that is
\* not blocked in queue_cv_.wait.
NoLostWakeup ==
    (~aborted /\ ~should_terminate_ /\ task_queue_ /= << >>)
        => \E w \in Workers : w \notin queue_cv_

\* C4: workers take the tasks off the queue in the order of the pushes.
StartOrderIsEnqueueOrder ==
    \A i \in 1..Len(startOrder) : startOrder[i] = i

StartOrderWitness ==
    /\ num_threads >= 2
    /\ Len(startOrder) >= 2
    /\ \A w \in Workers : pc[w] = "run"

\* C5: when ~ThreadPool returns, every task enqueued before it was invoked
\* has run to its end, and so has every task a worker took.
DtorLeavesNothingBehind ==
    pc[Owner] = "dt_done" =>
        /\ \A id \in 1..snap[Owner] : Finished(id)
        /\ \A id \in Range(startOrder) : Finished(id)

DtorWitness ==
    /\ pc[Owner] = "dt_done"
    /\ num_threads >= 2
    /\ snap[Owner] >= 2
    /\ nEnq > snap[Owner]

\* C6: ~ThreadPool, once invoked, returns with every worker out of worker().
DtorEventuallyReturns ==
    in_dtor ~> (pc[Owner] = "dt_done" /\ \A w \in Workers : pc[w] = "exited")

\* The part of C6 about the terminate flag: once it is set no worker is
\* blocked in queue_cv_.wait.
NoWorkerBlockedAfterTerminate ==
    should_terminate_ => queue_cv_ \cap Workers = {}

\* C7: a task that fails does not stop its worker: until the pool is told to
\* terminate, all num_threads workers are alive.
LiveWorkers == IF aborted THEN {} ELSE {w \in Workers : pc[w] /= "exited"}

WorkersSurviveTasks ==
    ~should_terminate_ => Cardinality(LiveWorkers) = num_threads

(***************************************************************************)
(* VFS::read. The caller is the owner thread; the uri is a local file. The *)
(* pool VFS::read calls hands out a future per task and has a wait_all     *)
(* over futures: handle[id] is that future. Bytes are numbered from 0;     *)
(* buffer[k + 1] is byte k of the caller's buffer and file[k + 1] is byte  *)
(* k of the file.                                                          *)
(***************************************************************************)

\* utils::ceil: the quotient rounded up.
ceil(x, y) == IF y = 0 THEN 0 ELSE (x \div y) + (IF x % y /= 0 THEN 1 ELSE 0)

\* A thread count that does not look at parallel_read_threshold_.
NumThreadsAlways(nbytes) == num_threads

\* nbytes >= parallel_read_threshold_ ? thread_pool_->num_threads() : 1
NumThreadsFor(nbytes) ==
    IF nbytes >= parallel_read_threshold_ THEN num_threads ELSE 1

\* thread_read_nbytes = utils::ceil(nbytes, num_threads)
ThreadReadNbytes(nbytes, T) == ceil(nbytes, T)

\* begin = i * thread_read_nbytes
Begin(i, trn) == (i * trn) % Word

\* end = std::min((i + 1) * thread_read_nbytes - 1, nbytes - 1)
End(i, trn, nbytes) == Min(((i + 1) * trn - 1) % Word, (nbytes - 1) % Word)

\* thread_nbytes = end - begin + 1
ThreadNbytes(begin, end) == (end - begin + 1) % Word

\* A thread_offset that forgets the shard's begin.
ThreadOffsetBase(offset, begin) == offset % Word

\* thread_offset = offset + begin
ThreadOffset(offset, begin) == (offset + begin) % Word

\* thread_buffer = reinterpret_cast<char*>(buffer) + begin
ThreadBuffer(begin) == begin

\* What the closure of shard i captures.
ShardOf(i, offset, nbytes, T) ==
    LET trn == ThreadReadNbytes(nbytes, T)
        begin == Begin(i, trn)
        end == End(i, trn, nbytes)
    IN  [begin |-> begin, end |-> end,
         thread_nbytes |-> ThreadNbytes(begin, end),
         thread_offset |-> ThreadOffset(offset, begin),
         thread_buffer |-> ThreadBuffer(begin)]

\* A backend read of len bytes at off: the file has these bytes or the read
\* fails.
BackendCanRead(off, len) == off + len <= Len(file)

\* The buffer after a backend read of len bytes at off into position pos.
\* A read that succeeds in this model lies within the caller's buffer.
BufferAfterRead(buf, pos, off, len) ==
    [k \in DOMAIN buf |->
        IF pos < k /\ k <= pos + len THEN file[off + (k - pos)] ELSE buf[k]]

\* wait_all(results): every future is awaited in turn.
AllResolved == \A id \in DOMAIN handle : handle[id] /= Pending

\* wait_all(results) is true iff every task returned Ok.
AllOk == \A id \in DOMAIN handle : handle[id] = Ok

\* One backend read: the thread that issued it, the pool task it ran as (0
\* on the calling thread), and its arguments.
ReadCall(thread, id, off, pos, len) ==
    [thread |-> thread, id |-> id, offset |-> off, buffer |-> pos, nbytes |-> len]

\* A rejection that comes after the backend read it should have prevented.
ReadRejectAfterRead ==
    /\ pc[Owner] = "idle"
    /\ ~isFile
    /\ ret' = VFSError("Cannot read from file; File does not exist")
    /\ reads' = reads \cup {ReadCall("caller", 0, req.offset, 0, req.nbytes)}
    /\ pc' = [pc EXCEPT ![Owner] = "rd_done"]
    /\ UNCHANGED <<num_threads, should_terminate_, queue_mutex_, queue_cv_,
                   task_queue_, cur, nEnq, execs, startOrder, snap, in_dtor,
                   aborted, parallel_read_threshold_, file, isFile, req, shard,
                   handle, buffer, fsVars, apiVars>>

\* if (!is_file(uri)) return VFSError
ReadReject ==
    /\ pc[Owner] = "idle"
    /\ ~isFile
    /\ ret' = VFSError("Cannot read from file; File does not exist")
    /\ pc' = [pc EXCEPT ![Owner] = "rd_done"]
    /\ UNCHANGED <<num_threads, should_terminate_, queue_mutex_, queue_cv_,
                   task_queue_, cur, nEnq, execs, startOrder, snap, in_dtor,
                   aborted, parallel_read_threshold_, file, isFile, req, shard,
                   handle, buffer, reads, fsVars, apiVars>>

\* num_threads == 1: return read_impl(uri, offset, buffer, nbytes), on the
\* calling thread. The backend read may also fail for a reason of its own.
ReadSerial ==
    /\ pc[Owner] = "idle"
    /\ isFile
    /\ NumThreadsFor(req.nbytes) = 1
    /\ \/ /\ BackendCanRead(req.offset, req.nbytes)
          /\ buffer' = BufferAfterRead(buffer, 0, req.offset, req.nbytes)
          /\ ret' = Ok
       \/ /\ ret' = BackendError
          /\ UNCHANGED buffer
    /\ reads' = reads \cup {ReadCall("caller", 0, req.offset, 0, req.nbytes)}
    /\ pc' = [pc EXCEPT ![Owner] = "rd_done"]
    /\ UNCHANGED <<num_threads, should_terminate_, queue_mutex_, queue_cv_,
                   task_queue_, cur, nEnq, execs, startOrder, snap, in_dtor,
                   aborted, parallel_read_threshold_, file, isFile, req, shard,
                   handle, fsVars, apiVars>>

\* num_threads /= 1: the loop over the shards begins.
ReadParallel ==
    /\ pc[Owner] = "idle"
    /\ isFile
    /\ NumThreadsFor(req.nbytes) /= 1
    /\ pc' = [pc EXCEPT ![Owner] = "rd_enq"]
    /\ UNCHANGED <<num_threads, should_terminate_, queue_mutex_, queue_cv_,
                   task_queue_, cur, nEnq, execs, startOrder, snap, in_dtor,
                   aborted, vfsVars, apiVars>>

\* thread_pool_->enqueue(...): unique_lock lck(queue_mutex_)
ReadEnqueueLock ==
    /\ pc[Owner] = "rd_enq"
    /\ queue_mutex_ = {}
    /\ queue_mutex_' = {Owner}
    /\ pc' = [pc EXCEPT ![Owner] = "rd_enq_cs"]
    /\ UNCHANGED <<num_threads, should_terminate_, queue_cv_, task_queue_, cur,
                   nEnq, execs, startOrder, snap, in_dtor, aborted, vfsVars, apiVars>>

\* The body of the loop for i = req.i: the shard is computed, its closure is
\* pushed, one waiter is notified, the future is kept in results, and the
\* loop ends after num_threads rounds.
ReadEnqueuePush ==
    /\ pc[Owner] = "rd_enq_cs"
    /\ nEnq' = nEnq + 1
    /\ shard' = Append(shard, ShardOf(req.i, req.offset, req.nbytes,
                                      NumThreadsFor(req.nbytes)))
    /\ handle' = Append(handle, Pending)
    /\ task_queue_' = Push(task_queue_, nEnq + 1)
    /\ queue_cv_' \in NotifyOne(queue_cv_)
    /\ queue_mutex_' = {}
    /\ req' = [req EXCEPT !.i = @ + 1]
    /\ pc' = [pc EXCEPT ![Owner] =
                 IF req.i + 1 < NumThreadsFor(req.nbytes) THEN "rd_enq" ELSE "rd_wait"]
    /\ UNCHANGED <<num_threads, should_terminate_, cur, execs, startOrder, snap,
                   in_dtor, aborted, parallel_read_threshold_, file, isFile,
                   buffer, ret, reads, fsVars, apiVars>>

\* all_ok ? Status::Ok() : Status::VFSError("VFS parallel read error")
ParallelStatus(all_ok) ==
    IF all_ok THEN Ok ELSE VFSError("VFS parallel read error")

\* A read that returns without awaiting its futures.
ReadReturnNoWait ==
    /\ pc[Owner] = "rd_wait"
    /\ ret' = ParallelStatus(AllOk)
    /\ pc' = [pc EXCEPT ![Owner] = "rd_done"]
    /\ UNCHANGED <<num_threads, should_terminate_, queue_mutex_, queue_cv_,
                   task_queue_, cur, nEnq, execs, startOrder, snap, in_dtor,
                   aborted, parallel_read_threshold_, file, isFile, req, shard,
                   handle, buffer, reads, fsVars, apiVars>>

\* all_ok = thread_pool_->wait_all(results); return all_ok ? Ok : VFSError
ReadReturn ==
    /\ pc[Owner] = "rd_wait"
    /\ AllResolved
    /\ ret' = ParallelStatus(AllOk)
    /\ pc' = [pc EXCEPT ![Owner] = "rd_done"]
    /\ UNCHANGED <<num_threads, should_terminate_, queue_mutex_, queue_cv_,
                   task_queue_, cur, nEnq, execs, startOrder, snap, in_dtor,
                   aborted, parallel_read_threshold_, file, isFile, req, shard,
                   handle, buffer, reads, fsVars, apiVars>>

\* task() for a shard: read_impl(uri, thread_offset, thread_buffer,
\* thread_nbytes) on the worker; its Status resolves the future.
WorkerRunShard(w) ==
    /\ w \in Workers
    /\ pc[w] = "run"
    /\ cur[w] \in DOMAIN shard
    /\ LET sh == shard[cur[w]]
       IN  /\ \/ /\ BackendCanRead(sh.thread_offset, sh.thread_nbytes)
                 /\ buffer' = BufferAfterRead(buffer, sh.thread_buffer,
                                              sh.thread_offset, sh.thread_nbytes)
                 /\ handle' = [handle EXCEPT ![cur[w]] = Ok]
              \/ /\ handle' = [handle EXCEPT ![cur[w]] = BackendError]
                 /\ UNCHANGED buffer
           /\ reads' = reads \cup {ReadCall("worker", cur[w], sh.thread_offset,
                                            sh.thread_buffer, sh.thread_nbytes)}
    /\ execs' = [execs EXCEPT ![cur[w]] = @ + 1]
    /\ cur' = [cur EXCEPT ![w] = 0]
    /\ pc' = [pc EXCEPT ![w] = "lock"]
    /\ UNCHANGED <<num_threads, should_terminate_, queue_mutex_, queue_cv_,
                   task_queue_, nEnq, startOrder, snap, in_dtor, aborted,
                   parallel_read_threshold_, file, isFile, req, shard, ret,
                   fsVars, apiVars>>

\* VFS::init and the arguments of one read call.
InitRead ==
    /\ \E n \in 1..MaxReadThreads : PoolInit(n)
    /\ parallel_read_threshold_ \in {0, Threshold}
    /\ isFile \in BOOLEAN
    /\ file = IF isFile THEN [k \in 1..(MaxOffset + MaxBytes) |-> k] ELSE << >>
    /\ req \in [offset : {0, MaxOffset}, nbytes : 0..MaxBytes, i : {0}]
    /\ shard = << >>
    /\ handle = << >>
    /\ buffer = [k \in 1..req.nbytes |-> 0]
    /\ ret = NoStatus
    /\ reads = {}
    /\ NoFs
    /\ NoApi

NextRead ==
    \/ ReadReject
    \/ ReadSerial
    \/ ReadParallel
    \/ ReadEnqueueLock
    \/ ReadEnqueuePush
    \/ ReadReturn
    \/ \E w \in WorkerIds :
          \/ WorkerLock(w)
          \/ WorkerWait(w)
          \/ WorkerPop(w)
          \/ WorkerRunShard(w)
    \/ \E t \in Threads : SpuriousWake(t)

SpecRead == InitRead /\ [][NextRead]_vars

\* The read took the parallel path and has enqueued all its shards.
PlanMade == pc[Owner] \in {"rd_wait", "rd_done"} /\ shard /= << >>

\* C8: the shards VFS::read enqueues are num_threads contiguous ranges, none
\* longer than ceil(nbytes / num_threads), that cover [0, nbytes) exactly,
\* and no computed value has wrapped.
ShardPlanExact ==
    PlanMade =>
        LET T == num_threads
            n == req.nbytes
        IN  /\ Len(shard) = T
            /\ shard[1].begin = 0
            /\ \A i \in 1..T :
                  /\ shard[i].thread_nbytes <= ceil(n, T)
                  /\ shard[i].thread_nbytes > 0 =>
                        shard[i].end = shard[i].begin + shard[i].thread_nbytes - 1
            /\ \A i \in 1..(T - 1) :
                  shard[i + 1].begin = shard[i].begin + shard[i].thread_nbytes
            /\ shard[T].begin + shard[T].thread_nbytes = n

\* C9: when VFS::read has returned, none of its shard tasks is queued or
\* running: each has run to its end.
ReadReturnsAfterShards ==
    pc[Owner] = "rd_done" =>
        \A id \in DOMAIN shard :
            /\ ~Queued(id)
            /\ \A w \in Workers : cur[w] /= id
            /\ Finished(id)

\* The read returned an error after its first shard failed and the others
\* did not.
ReadReturnsWitness ==
    /\ pc[Owner] = "rd_done"
    /\ ret /= Ok
    /\ Len(shard) >= 3
    /\ handle[1] /= Ok
    /\ \A id \in DOMAIN handle : id /= 1 => handle[id] = Ok

\* What one backend read of (offset, nbytes) into the buffer produces.
SerialRead == BufferAfterRead([k \in 1..req.nbytes |-> 0], 0, req.offset, req.nbytes)

\* C10: the buffer of a successful parallel read is the buffer of one serial
\* backend read of (offset, nbytes).
ParallelEqualsSerial ==
    (pc[Owner] = "rd_done" /\ shard /= << >> /\ ret = Ok) => buffer = SerialRead

ParallelEqualsSerialWitness ==
    /\ pc[Owner] = "rd_done"
    /\ ret = Ok
    /\ Len(shard) >= 3
    /\ req.nbytes = MaxBytes
    /\ req.offset = MaxOffset
    /\ buffer = SerialRead

\* The parallel path was taken and the read has returned.
ParallelDone == pc[Owner] = "rd_done" /\ shard /= << >>

\* A parallel read returns Ok exactly when every shard's read returned Ok.
ParallelOkIffAllOk == ParallelDone => (ret = Ok <=> AllOk)

\* The first shard, in the order of results, whose Status is not Ok.
FirstFailed ==
    CHOOSE id \in DOMAIN handle :
        handle[id] /= Ok /\ \A j \in 1..(id - 1) : handle[j] = Ok

\* C11: a parallel VFS::read returns Ok iff every shard read returned Ok, and
\* when a shard failed the Status it returns has the category of the first
\* failing shard's Status.
ParallelErrorCarriesCategory ==
    ParallelDone =>
        /\ ret = Ok <=> AllOk
        /\ ~AllOk => ret.category = handle[FirstFailed].category

\* C12: a VFS::read of a uri that is not a file returns an error and does
\* nothing else: no backend read, no task on the pool, the buffer as it was.
RejectHasNoEffect ==
    (pc[Owner] = "rd_done" /\ ~isFile) =>
        /\ ret \notin {Ok, NoStatus}
        /\ reads = {}
        /\ nEnq = 0
        /\ task_queue_ = << >>
        /\ shard = << >>
        /\ buffer = [k \in 1..req.nbytes |-> 0]

\* A rejected read whose size and pool would have taken the parallel path.
RejectWitness ==
    /\ pc[Owner] = "rd_done"
    /\ ~isFile
    /\ ret = VFSError("Cannot read from file; File does not exist")
    /\ req.nbytes = MaxBytes
    /\ num_threads >= 2
    /\ parallel_read_threshold_ <= req.nbytes

\* nbytes < parallel_read_threshold or the pool has exactly one thread.
SerialCase == req.nbytes < parallel_read_threshold_ \/ num_threads = 1

\* C13: in the serial case VFS::read issues exactly one backend read, of
\* (offset, nbytes) into the start of the buffer, on the calling thread, and
\* enqueues nothing; in every other case it enqueues one shard per pool
\* thread and every backend read is made by a worker.
SerialOrSharded ==
    isFile =>
        IF SerialCase
        THEN /\ nEnq = 0
             /\ shard = << >>
             /\ pc[Owner] = "rd_done" =>
                   reads = {ReadCall("caller", 0, req.offset, 0, req.nbytes)}
        ELSE /\ \A r \in reads : r.thread = "worker"
             /\ pc[Owner] = "rd_done" =>
                   /\ Len(shard) = num_threads
                   /\ nEnq = num_threads
                   /\ Cardinality(reads) = num_threads

\* A read below the threshold on a pool of several threads returned Ok.
SerialWitness ==
    /\ pc[Owner] = "rd_done"
    /\ isFile
    /\ ret = Ok
    /\ num_threads >= 2
    /\ 0 < req.nbytes
    /\ req.nbytes < parallel_read_threshold_
    /\ buffer = SerialRead

(***************************************************************************)
(* The VFS as a dispatcher over its backends (vfs.cc). A URI is a scheme   *)
(* and a path; fs maps every URI of a backend to what the backend holds    *)
(* there. A backend that is not compiled in holds nothing the program can  *)
(* reach. Every VFS function is an operator from the filesystem and its    *)
(* arguments to the filesystem it leaves, the Status it returns and the    *)
(* backend calls it made; whether a backend call fails for a reason of the *)
(* backend's own is an input.                                              *)
(***************************************************************************)
Uri(scheme, path) == [scheme |-> scheme, path |-> path]

\* The URIs of the three backends, and one URI of a scheme that is none of
\* file, hdfs, s3. The local filesystem has two paths, so that a move has a
\* destination that is not its source on the same backend.
ObjUris ==
    {Uri("file", "a"), Uri("file", "b"), Uri("hdfs", "a"), Uri("s3", "a")}
Uris == ObjUris \cup {Uri("other", "a")}

\* URI::is_file, URI::is_hdfs, URI::is_s3
uri_is_file(u) == u.scheme = "file"
uri_is_hdfs(u) == u.scheme = "hdfs"
uri_is_s3(u) == u.scheme = "s3"

\* What a backend holds at a URI.
Nothing == [kind |-> "none", size |-> 0]
Dir == [kind |-> "dir", size |-> 0]
File(n) == [kind |-> "file", size |-> n]
Bucket == [kind |-> "bucket", size |-> 0]
Holds(f, u) == IF u \in DOMAIN f THEN f[u] ELSE Nothing

\* The outcome of a VFS function, and one entry of its backend calls.
R(f, status, cs) == [fs |-> f, st |-> status, calls |-> cs]
Call(fn, u, status) == [fn |-> fn, uri |-> u, st |-> status]

\* A backend call fn on u: it succeeds, leaving f2, or fails, leaving f.
Backend(fn, u, f, f2, ok) ==
    LET status == IF ok THEN Ok ELSE BackendError
    IN  R(IF ok THEN f2 ELSE f, status, << Call(fn, u, status) >>)

\* The backend of u is compiled in.
Compiled(u) ==
    \/ uri_is_file(u)
    \/ uri_is_hdfs(u) /\ HAVE_HDFS
    \/ uri_is_s3(u) /\ HAVE_S3

\* posix:: / hdfs:: / s3_. functions, all with the same meaning.
backend_create_dir(f, u, fail) ==
    Backend("create_dir", u, f, [f EXCEPT ![u] = Dir],
            ~fail /\ f[u].kind = "none")

backend_create_file(f, u, fail) ==
    Backend("create_file", u, f, [f EXCEPT ![u] = File(0)],
            ~fail /\ f[u].kind = "none")

backend_remove_path(f, u, fail) ==
    Backend("remove_path", u, f, [f EXCEPT ![u] = Nothing],
            ~fail /\ f[u].kind \in {"file", "dir"})

backend_remove_file(f, u, fail) ==
    Backend("remove_file", u, f, [f EXCEPT ![u] = Nothing],
            ~fail /\ f[u].kind = "file")

backend_file_size(f, u, fail) ==
    Backend("file_size", u, f, f, ~fail /\ f[u].kind = "file")

backend_move_path(f, old, new, fail) ==
    Backend("move_path", old, f,
            IF old = new THEN f ELSE [f EXCEPT ![new] = f[old], ![old] = Nothing],
            ~fail /\ f[old].kind \in {"file", "dir"} /\ f[new].kind /= "bucket")

backend_read(f, u, fail) ==
    Backend("read", u, f, f, ~fail /\ f[u].kind = "file")

backend_write(f, u, n, fail) ==
    Backend("write", u, f, [f EXCEPT ![u] = File(f[u].size + n)],
            ~fail /\ f[u].kind \in {"none", "file"})

backend_sync(f, u, fail) == Backend("sync", u, f, f, ~fail)

backend_flush_file(f, u, fail) == Backend("flush_file", u, f, f, ~fail)

backend_filelock_lock(f, u, fail) == Backend("filelock_lock", u, f, f, ~fail)

backend_filelock_unlock(f, u, fail) == Backend("filelock_unlock", u, f, f, ~fail)

\* S3::create_bucket, delete_bucket, empty_bucket, is_empty_bucket. What a
\* bucket contains is not modelled.
backend_create_bucket(f, u, fail) ==
    Backend("create_bucket", u, f, [f EXCEPT ![u] = Bucket],
            ~fail /\ f[u].kind = "none")

backend_delete_bucket(f, u, fail) ==
    Backend("delete_bucket", u, f, [f EXCEPT ![u] = Nothing],
            ~fail /\ f[u].kind = "bucket")

backend_empty_bucket(f, u, fail) ==
    Backend("empty_bucket", u, f, f, ~fail /\ f[u].kind = "bucket")

backend_is_empty_bucket(f, u, fail) ==
    Backend("is_empty_bucket", u, f, f, ~fail /\ f[u].kind = "bucket")

\* The messages of the VFS.
S3NotSupported == "S3 is not supported"
CannotCreateBucket == "Cannot create bucket; Unsupported URI scheme: "
CannotRemoveBucket == "Cannot remove bucket; Unsupported URI scheme: "
NoHDFS == "TileDB was built without HDFS support"
NoS3 == "TileDB was built without S3 support"
UnsupportedScheme == "Unsupported URI scheme: "
UnsupportedSchemes == "Unsupported URI schemes: "
AcrossFilesystems == "Moving files across filesystems is not supported yet"
DirExists == "Cannot create directory '<uri>'; Directory already exists"
CannotRead == "Cannot read from file; File does not exist"
CannotOpen == "Cannot open file '<uri>'; File does not exist"
NoAppend == "Cannot open file '<uri>'; S3 does not support append mode"
CannotOpenNoS3 == "Cannot open file; TileDB was built without S3 support"

\* The chain  if (uri.is_file()) .. if (uri.is_hdfs()) .. if (uri.is_s3()) ..
\* with its #ifdef HAVE_HDFS / HAVE_S3 arms and its last return.
Dispatch(f, u, onFile, onHdfs, onS3, unsupported) ==
    IF uri_is_file(u) THEN onFile
    ELSE IF uri_is_hdfs(u)
         THEN IF HAVE_HDFS THEN onHdfs ELSE R(f, VFSError(NoHDFS), << >>)
    ELSE IF uri_is_s3(u)
         THEN IF HAVE_S3 THEN onS3 ELSE R(f, VFSError(NoS3), << >>)
    ELSE R(f, unsupported, << >>)

\* VFS::is_dir and VFS::is_file, and the backend call each makes.
is_dir(f, u) == Compiled(u) /\ f[u].kind = "dir"
is_file(f, u) == Compiled(u) /\ f[u].kind = "file"
is_dir_calls(u) == IF Compiled(u) THEN << Call("is_dir", u, Ok) >> ELSE << >>
is_file_calls(u) == IF Compiled(u) THEN << Call("is_file", u, Ok) >> ELSE << >>

\* r with the calls cs made before it.
After(cs, r) == R(r.fs, r.st, cs \o r.calls)

\* VFS::create_dir
create_dir(f, u, fail) ==
    IF is_dir(f, u)
    THEN R(f, VFSError(DirExists), is_dir_calls(u))
    ELSE After(is_dir_calls(u),
               Dispatch(f, u, backend_create_dir(f, u, fail),
                        backend_create_dir(f, u, fail),
                        backend_create_dir(f, u, fail),
                        Error(UnsupportedScheme)))

\* VFS::create_file
create_file(f, u, fail) ==
    IF is_file(f, u)
    THEN R(f, Ok, is_file_calls(u))
    ELSE After(is_file_calls(u),
               Dispatch(f, u, backend_create_file(f, u, fail),
                        backend_create_file(f, u, fail),
                        backend_create_file(f, u, fail),
                        VFSError(UnsupportedScheme)))

\* A create_bucket that hands every URI to the object store.
create_bucket_anywhere(f, u, fail) == Backend("create_bucket", u, f, f, ~fail)

\* VFS::create_bucket
create_bucket(f, u, fail) ==
    IF uri_is_s3(u)
    THEN IF HAVE_S3 THEN backend_create_bucket(f, u, fail)
         ELSE R(f, VFSError(S3NotSupported), << >>)
    ELSE R(f, VFSError(CannotCreateBucket), << >>)

\* VFS::remove_bucket
remove_bucket(f, u, fail) ==
    IF uri_is_s3(u)
    THEN IF HAVE_S3 THEN backend_delete_bucket(f, u, fail)
         ELSE R(f, VFSError(S3NotSupported), << >>)
    ELSE R(f, VFSError(CannotRemoveBucket), << >>)

\* VFS::empty_bucket
empty_bucket(f, u, fail) ==
    IF uri_is_s3(u)
    THEN IF HAVE_S3 THEN backend_empty_bucket(f, u, fail)
         ELSE R(f, VFSError(S3NotSupported), << >>)
    ELSE R(f, VFSError(CannotRemoveBucket), << >>)

\* VFS::is_empty_bucket
is_empty_bucket(f, u, fail) ==
    IF uri_is_s3(u)
    THEN IF HAVE_S3 THEN backend_is_empty_bucket(f, u, fail)
         ELSE R(f, VFSError(S3NotSupported), << >>)
    ELSE R(f, VFSError(CannotRemoveBucket), << >>)

\* VFS::is_bucket, and the backend call it makes.
is_bucket(f, u) == uri_is_s3(u) /\ HAVE_S3 /\ f[u].kind = "bucket"
is_bucket_calls(u) ==
    IF uri_is_s3(u) /\ HAVE_S3 THEN << Call("is_bucket", u, Ok) >> ELSE << >>

\* VFS::remove_path
remove_path(f, u, fail) ==
    Dispatch(f, u, backend_remove_path(f, u, fail),
             backend_remove_path(f, u, fail), backend_remove_path(f, u, fail),
             VFSError(UnsupportedScheme))

\* VFS::remove_file
remove_file(f, u, fail) ==
    Dispatch(f, u, backend_remove_file(f, u, fail),
             backend_remove_file(f, u, fail), backend_remove_file(f, u, fail),
             VFSError(UnsupportedScheme))

\* A filelock_lock that asks every backend for a lock.
filelock_lock_everywhere(f, u, fail) ==
    Dispatch(f, u, backend_filelock_lock(f, u, fail),
             backend_filelock_lock(f, u, fail), backend_filelock_lock(f, u, fail),
             VFSError(UnsupportedScheme))

\* VFS::filelock_lock: HDFS and S3 return Ok without a backend call.
filelock_lock(f, u, fail) ==
    Dispatch(f, u, backend_filelock_lock(f, u, fail), R(f, Ok, << >>),
             R(f, Ok, << >>), VFSError(UnsupportedScheme))

\* VFS::filelock_unlock
filelock_unlock(f, u, fail) ==
    Dispatch(f, u, backend_filelock_unlock(f, u, fail), R(f, Ok, << >>),
             R(f, Ok, << >>), VFSError(UnsupportedScheme))

\* VFS::file_size
file_size(f, u, fail) ==
    Dispatch(f, u, backend_file_size(f, u, fail), backend_file_size(f, u, fail),
             backend_file_size(f, u, fail), VFSError(UnsupportedScheme))

\* A move_path that removes the destination whatever force says.
RemoveFirstAlways(f, new_uri, force) == is_dir(f, new_uri) \/ is_file(f, new_uri)

\* force && (is_dir(new_uri) || is_file(new_uri))
RemoveFirst(f, new_uri, force) ==
    force /\ (is_dir(f, new_uri) \/ is_file(f, new_uri))

\* The backend calls the evaluation of that condition makes: none without
\* force, and no is_file after an is_dir that returned true.
RemoveFirstCalls(f, new_uri, force) ==
    IF ~force THEN << >>
    ELSE IF is_dir(f, new_uri) THEN is_dir_calls(new_uri)
    ELSE is_dir_calls(new_uri) \o is_file_calls(new_uri)

\* The three blocks of VFS::move_path after the removal, and its last return.
MoveDispatch(f, old_uri, new_uri, fail) ==
    IF uri_is_file(old_uri)
    THEN IF uri_is_file(new_uri)
         THEN backend_move_path(f, old_uri, new_uri, fail)
         ELSE R(f, VFSError(AcrossFilesystems), << >>)
    ELSE IF uri_is_hdfs(old_uri)
    THEN IF uri_is_hdfs(new_uri)
         THEN IF HAVE_HDFS THEN backend_move_path(f, old_uri, new_uri, fail)
              ELSE R(f, VFSError(NoHDFS), << >>)
         ELSE R(f, VFSError(AcrossFilesystems), << >>)
    ELSE IF uri_is_s3(old_uri)
    THEN IF uri_is_s3(new_uri)
         THEN IF HAVE_S3 THEN backend_move_path(f, old_uri, new_uri, fail)
              ELSE R(f, VFSError(NoS3), << >>)
         ELSE R(f, VFSError(AcrossFilesystems), << >>)
    ELSE R(f, VFSError(UnsupportedSchemes), << >>)

\* VFS::move_path
move_path(f, old_uri, new_uri, force, failRemove, failMove) ==
    LET cs == RemoveFirstCalls(f, new_uri, force)
        rm == IF RemoveFirst(f, new_uri, force)
              THEN remove_path(f, new_uri, failRemove)
              ELSE R(f, Ok, << >>)
    IN  IF rm.st /= Ok
        THEN After(cs, rm)
        ELSE After(cs \o rm.calls, MoveDispatch(rm.fs, old_uri, new_uri, failMove))

\* VFS::read_impl
read_impl(f, u, fail) ==
    Dispatch(f, u, backend_read(f, u, fail), backend_read(f, u, fail),
             backend_read(f, u, fail), VFSError(UnsupportedSchemes))

\* VFS::read. The shards of the parallel path are one read_impl here; they
\* are taken apart in SpecRead.
read(f, u, parallel, fail) ==
    IF ~is_file(f, u)
    THEN R(f, VFSError(CannotRead), is_file_calls(u))
    ELSE LET r == read_impl(f, u, fail)
         IN  After(is_file_calls(u),
                   IF parallel THEN R(r.fs, ParallelStatus(r.st = Ok), r.calls)
                   ELSE r)

\* VFS::sync: a no-op on S3.
sync(f, u, fail) ==
    Dispatch(f, u, backend_sync(f, u, fail), backend_sync(f, u, fail),
             R(f, Ok, << >>), VFSError(UnsupportedSchemes))

\* An open in READ mode that does not look for the file.
OpenReadAlways(f, u) == R(f, Ok, is_file_calls(u))

\* case VFSMode::VFS_READ
OpenRead(f, u) ==
    IF ~is_file(f, u)
    THEN R(f, VFSError(CannotOpen), is_file_calls(u))
    ELSE R(f, Ok, is_file_calls(u))

\* An open in WRITE mode that keeps the file.
OpenWriteKeep(f, u, fail) == R(f, Ok, is_file_calls(u))

\* case VFSMode::VFS_WRITE
OpenWrite(f, u, fail) ==
    IF is_file(f, u)
    THEN LET rm == remove_file(f, u, fail)
         IN  IF rm.st /= Ok THEN After(is_file_calls(u), rm)
             ELSE R(rm.fs, Ok, is_file_calls(u) \o rm.calls)
    ELSE R(f, Ok, is_file_calls(u))

\* An open in APPEND mode that accepts every URI.
OpenAppendAlways(f, u) == R(f, Ok, << >>)

\* case VFSMode::VFS_APPEND
OpenAppend(f, u) ==
    IF uri_is_s3(u)
    THEN IF HAVE_S3 THEN R(f, VFSError(NoAppend), << >>)
         ELSE R(f, VFSError(CannotOpenNoS3), << >>)
    ELSE R(f, Ok, << >>)

Modes == {"READ", "WRITE", "APPEND"}

\* VFS::open_file
open_file(f, u, mode, fail) ==
    CASE mode = "READ" -> OpenRead(f, u)
      [] mode = "WRITE" -> OpenWrite(f, u, fail)
      [] mode = "APPEND" -> OpenAppend(f, u)

\* VFS::close_file
close_file(f, u, fail) ==
    Dispatch(f, u, backend_sync(f, u, fail), backend_sync(f, u, fail),
             backend_flush_file(f, u, fail), VFSError(UnsupportedSchemes))

\* VFS::write
write(f, u, buffer_size, fail) ==
    Dispatch(f, u, backend_write(f, u, buffer_size, fail),
             backend_write(f, u, buffer_size, fail),
             backend_write(f, u, buffer_size, fail),
             VFSError(UnsupportedSchemes))

\* No VFS call has been made yet.
NoOp ==
    [name |-> "none", uri |-> Uri("other", "a"), new_uri |-> Uri("other", "a"),
     force |-> FALSE, mode |-> "-", buffer_size |-> 0, shared |-> FALSE]

OpOf(name, u, new_uri, force, mode) ==
    [name |-> name, uri |-> u, new_uri |-> new_uri, force |-> force, mode |-> mode,
     buffer_size |-> 0, shared |-> FALSE]

\* The caller's filelock_t after a call with outcome r: the VFS hands fd to
\* the backend only, and a lock the backend grants is written there.
FdAfter(r) ==
    IF \E i \in DOMAIN r.calls :
           r.calls[i].fn = "filelock_lock" /\ r.calls[i].st = Ok
    THEN "written"
    ELSE "untouched"

\* One call of a VFS function with outcome r, made when the caller has taken
\* the Status of the call before: the call and the filesystem it began with
\* are remembered.
Do(o, r) ==
    /\ op = NoOp
    /\ \A u \in DOMAIN r.fs : r.fs[u].size <= MaxFileSize
    /\ fs' = r.fs
    /\ st' = r.st
    /\ calls' = r.calls
    /\ pre' = fs
    /\ op' = o
    /\ fd' = FdAfter(r)
    /\ UNCHANGED <<poolVars, parallel_read_threshold_, file, isFile, req, shard,
                   handle, buffer, ret, reads, HAVE_HDFS, HAVE_S3, apiVars>>

CreateDir ==
    \E u \in Uris, fail \in BOOLEAN :
        Do(OpOf("create_dir", u, u, FALSE, "-"), create_dir(fs, u, fail))

CreateFile ==
    \E u \in Uris, fail \in BOOLEAN :
        Do(OpOf("create_file", u, u, FALSE, "-"), create_file(fs, u, fail))

RemovePath ==
    \E u \in Uris, fail \in BOOLEAN :
        Do(OpOf("remove_path", u, u, FALSE, "-"), remove_path(fs, u, fail))

RemoveFile ==
    \E u \in Uris, fail \in BOOLEAN :
        Do(OpOf("remove_file", u, u, FALSE, "-"), remove_file(fs, u, fail))

FilelockLock ==
    \E u \in Uris, shared \in BOOLEAN, fail \in BOOLEAN :
        Do([OpOf("filelock_lock", u, u, FALSE, "-") EXCEPT !.shared = shared],
           filelock_lock(fs, u, fail))

FilelockUnlock ==
    \E u \in Uris, fail \in BOOLEAN :
        Do(OpOf("filelock_unlock", u, u, FALSE, "-"), filelock_unlock(fs, u, fail))

CreateBucket ==
    \E u \in Uris, fail \in BOOLEAN :
        Do(OpOf("create_bucket", u, u, FALSE, "-"), create_bucket(fs, u, fail))

RemoveBucket ==
    \E u \in Uris, fail \in BOOLEAN :
        Do(OpOf("remove_bucket", u, u, FALSE, "-"), remove_bucket(fs, u, fail))

EmptyBucket ==
    \E u \in Uris, fail \in BOOLEAN :
        Do(OpOf("empty_bucket", u, u, FALSE, "-"), empty_bucket(fs, u, fail))

IsEmptyBucket ==
    \E u \in Uris, fail \in BOOLEAN :
        Do(OpOf("is_empty_bucket", u, u, FALSE, "-"), is_empty_bucket(fs, u, fail))

FileSize ==
    \E u \in Uris, fail \in BOOLEAN :
        Do(OpOf("file_size", u, u, FALSE, "-"), file_size(fs, u, fail))

MovePath ==
    \E old_uri \in Uris, new_uri \in Uris, force \in BOOLEAN,
       failRemove \in BOOLEAN, failMove \in BOOLEAN :
        Do(OpOf("move_path", old_uri, new_uri, force, "-"),
           move_path(fs, old_uri, new_uri, force, failRemove, failMove))

Read ==
    \E u \in Uris, parallel \in BOOLEAN, fail \in BOOLEAN :
        Do(OpOf("read", u, u, FALSE, "-"), read(fs, u, parallel, fail))

Sync ==
    \E u \in Uris, fail \in BOOLEAN :
        Do(OpOf("sync", u, u, FALSE, "-"), sync(fs, u, fail))

OpenFile ==
    \E u \in Uris, mode \in Modes, fail \in BOOLEAN :
        Do(OpOf("open_file", u, u, FALSE, mode), open_file(fs, u, mode, fail))

CloseFile ==
    \E u \in Uris, fail \in BOOLEAN :
        Do(OpOf("close_file", u, u, FALSE, "-"), close_file(fs, u, fail))

Write ==
    \E u \in Uris, buffer_size \in 1..MaxFileSize, fail \in BOOLEAN :
        Do([OpOf("write", u, u, FALSE, "-") EXCEPT !.buffer_size = buffer_size],
           write(fs, u, buffer_size, fail))

\* The caller takes the Status; what is remembered of the call is dropped.
Returned ==
    /\ op /= NoOp
    /\ op' = NoOp
    /\ pre' = fs
    /\ calls' = << >>
    /\ st' = NoStatus
    /\ fd' = "untouched"
    /\ UNCHANGED <<poolVars, parallel_read_threshold_, file, isFile, req, shard,
                   handle, buffer, ret, reads, HAVE_HDFS, HAVE_S3, fs, apiVars>>

\* VFS::VFS and VFS::init in each of the four builds; the backends hold
\* nothing yet.
InitVfs ==
    /\ PoolInit(1)
    /\ NoRead
    /\ HAVE_HDFS \in BOOLEAN
    /\ HAVE_S3 \in BOOLEAN
    /\ fs = [u \in ObjUris |-> Nothing]
    /\ op = NoOp
    /\ pre = fs
    /\ calls = << >>
    /\ st = NoStatus
    /\ fd = "untouched"
    /\ NoApi

NextVfs ==
    \/ CreateDir
    \/ CreateFile
    \/ RemovePath
    \/ RemoveFile
    \/ FilelockLock
    \/ FilelockUnlock
    \/ CreateBucket
    \/ RemoveBucket
    \/ EmptyBucket
    \/ IsEmptyBucket
    \/ FileSize
    \/ MovePath
    \/ Read
    \/ Sync
    \/ OpenFile
    \/ CloseFile
    \/ Write
    \/ Returned

SpecVfs == InitVfs /\ [][NextVfs]_vars

\* Every backend holds nothing under a URI the build cannot reach.
OnlyCompiledHold == \A u \in DOMAIN fs : ~Compiled(u) => fs[u] = Nothing

\* The call made last, by name and by mode.
Called(name) == op.name = name
Opened(mode) == op.name = "open_file" /\ op.mode = mode

\* The errors the claims speak of, as the VFS words them.
IsCrossBackendMove(s) == s = VFSError(AcrossFilesystems)
IsUnsupportedScheme(s) ==
    /\ s.category \in {"VFSError", "Error"}
    /\ s.message \in {UnsupportedScheme, UnsupportedSchemes}
IsBackendDisabled(s, u) ==
    \/ uri_is_hdfs(u) /\ s = VFSError(NoHDFS)
    \/ uri_is_s3(u) /\ s = VFSError(NoS3)

\* The one message of the VFS that contains "append".
MentionsAppend(s) == s.message = NoAppend

\* The positions in calls of the backend calls named fn.
CallsOf(fn) == {i \in DOMAIN calls : calls[i].fn = fn}

\* The call was a move between two different backends.
CrossBackend ==
    /\ Called("move_path")
    /\ op.uri.scheme \in {"file", "hdfs", "s3"}
    /\ op.new_uri.scheme \in {"file", "hdfs", "s3"}
    /\ op.uri.scheme /= op.new_uri.scheme

\* C14: a move between different backends is rejected with the
\* cross-backend-move error and leaves source and destination as they were,
\* whatever force is and whether or not the destination exists.
CrossMoveLeavesBothUntouched ==
    CrossBackend => IsCrossBackendMove(st) /\ fs = pre

\* C15: in move_path with force set and an existing destination, the
\* destination is removed before the backend's move is invoked, and a
\* removal that fails ends the call with the removal's error and no move;
\* without force move_path removes nothing.
ForceRemovesFirst ==
    Called("move_path") =>
        /\ (op.force /\ Holds(pre, op.new_uri).kind \in {"file", "dir"}) =>
              /\ CallsOf("remove_path") /= {}
              /\ \A i \in CallsOf("remove_path") :
                    /\ calls[i].uri = op.new_uri
                    /\ \A m \in CallsOf("move_path") : i < m
                    /\ calls[i].st /= Ok =>
                          /\ CallsOf("move_path") = {}
                          /\ st = calls[i].st
                          /\ fs = pre
        /\ ~op.force => CallsOf("remove_path") = {}

\* A forced move of one local file onto another: the destination was
\* removed, then the source was moved there.
ForceRemovesWitness ==
    /\ Called("move_path")
    /\ op.force
    /\ op.uri = Uri("file", "a")
    /\ op.new_uri = Uri("file", "b")
    /\ pre[op.uri] = File(MaxFileSize)
    /\ pre[op.new_uri] = File(0)
    /\ st = Ok
    /\ CallsOf("remove_path") /= {}
    /\ CallsOf("move_path") /= {}
    /\ fs[op.new_uri] = File(MaxFileSize)
    /\ fs[op.uri] = Nothing

\* C16 as stated: opening an s3 URI in APPEND mode returns, in every build,
\* an error whose message contains "append" and changes no object; opening
\* a local or HDFS URI in APPEND mode is accepted.
AppendRejectedEveryBuild ==
    Opened("APPEND") =>
        /\ uri_is_s3(op.uri) => st /= Ok /\ MentionsAppend(st) /\ fs = pre
        /\ (uri_is_file(op.uri) \/ uri_is_hdfs(op.uri)) => st = Ok

\* C16 amended: opening an s3 URI in APPEND mode returns an error, makes no
\* backend call and changes no object in every build; the message contains
\* "append" in a build with S3 support and is the built-without-S3 message
\* otherwise. Opening a local or HDFS URI in APPEND mode is accepted.
AppendRejected ==
    Opened("APPEND") =>
        /\ uri_is_s3(op.uri) =>
              /\ st = IF HAVE_S3 THEN VFSError(NoAppend) ELSE VFSError(CannotOpenNoS3)
              /\ HAVE_S3 <=> MentionsAppend(st)
              /\ calls = << >>
              /\ fs = pre
        /\ (uri_is_file(op.uri) \/ uri_is_hdfs(op.uri)) => st = Ok /\ fs = pre

\* An s3 object exists and opening it in APPEND mode was refused.
AppendRejectedWitness ==
    /\ Opened("APPEND")
    /\ uri_is_s3(op.uri)
    /\ HAVE_S3
    /\ pre[op.uri] = File(MaxFileSize)
    /\ st = VFSError(NoAppend)

\* C17: open_file in READ mode succeeds iff the file exists when it is
\* called, returns an error otherwise, and leaves the filesystem as it was.
OpenReadIffExists ==
    Opened("READ") =>
        /\ st = Ok <=> Holds(pre, op.uri).kind = "file"
        /\ st /= Ok => st = VFSError(CannotOpen)
        /\ fs = pre

\* An HDFS file exists and was opened for reading.
OpenReadWitness ==
    /\ Opened("READ")
    /\ uri_is_hdfs(op.uri)
    /\ pre[op.uri].kind = "file"
    /\ st = Ok

\* C18: open_file in WRITE mode removes an existing file before it returns
\* Ok, so that after a successful open no file is left at uri and a write
\* that follows makes a file of just the bytes written; a removal that fails
\* ends the call with the removal's error and the file as it was.
OpenWriteRemoves ==
    /\ Opened("WRITE") =>
          /\ st = Ok => Holds(fs, op.uri).kind /= "file"
          /\ (st = Ok /\ Holds(pre, op.uri).kind = "file") =>
                /\ \E i \in CallsOf("remove_file") :
                      calls[i].uri = op.uri /\ calls[i].st = Ok
                /\ fs = [pre EXCEPT ![op.uri] = Nothing]
          /\ \A i \in CallsOf("remove_file") :
                calls[i].st /= Ok => st = calls[i].st /\ fs = pre
          /\ Holds(pre, op.uri).kind /= "file" => fs = pre
    /\ (Called("write") /\ st = Ok) =>
          fs[op.uri] = File(Holds(pre, op.uri).size + op.buffer_size)

\* A local file with contents was opened for writing and is gone.
OpenWriteWitness ==
    /\ Opened("WRITE")
    /\ uri_is_file(op.uri)
    /\ pre[op.uri] = File(MaxFileSize)
    /\ st = Ok
    /\ fs[op.uri] = Nothing

\* The call made last is one of the four bucket functions that return a
\* Status.
BucketCall ==
    op.name \in {"create_bucket", "remove_bucket", "empty_bucket",
                 "is_empty_bucket"}

\* A call, other than of a bucket function, whose URIs all have a scheme
\* that is none of file, hdfs, s3.
UnsupportedCall ==
    /\ ~Called("none")
    /\ ~BucketCall
    /\ op.uri.scheme = "other"
    /\ op.new_uri.scheme = "other"

\* A call, other than of a bucket function, whose URIs are all of one
\* backend that is not compiled in.
DisabledCall ==
    /\ ~Called("none")
    /\ ~BucketCall
    /\ op.uri.scheme \in {"hdfs", "s3"}
    /\ ~Compiled(op.uri)
    /\ op.new_uri.scheme = op.uri.scheme

\* C19: every VFS function given a URI whose scheme is none of file, hdfs,
\* s3 fails with the unsupported-scheme error and makes no backend call.
UnsupportedSchemeFails ==
    UnsupportedCall => IsUnsupportedScheme(st) /\ calls = << >>

\* C20: in a build without HDFS (S3) support every VFS function given an
\* hdfs (s3) URI returns the built-without-support error, unwrapped, and
\* makes no backend call.
BackendDisabledFails ==
    DisabledCall => IsBackendDisabled(st, op.uri) /\ calls = << >>

\* The functions that are nothing but the dispatch chain.
Dispatched ==
    op.name \in {"create_dir", "create_file", "remove_path", "remove_file",
                 "filelock_lock", "filelock_unlock", "file_size", "move_path",
                 "sync", "close_file", "write"}

\* For those functions both errors are as C19 and C20 say.
DispatchedFail ==
    Dispatched =>
        /\ UnsupportedCall => IsUnsupportedScheme(st) /\ calls = << >>
        /\ DisabledCall => IsBackendDisabled(st, op.uri) /\ calls = << >>

\* q is an initial part of r.
IsPrefix(q, r) == Len(q) <= Len(r) /\ \A i \in 1..Len(q) : q[i] = r[i]

\* C27: once should_terminate_ is set no worker takes a task off the queue:
\* the queue only grows at its back and nothing more is started, so a task
\* queued at that moment is never executed.
NoDequeueAfterTerminate ==
    [][should_terminate_ =>
          /\ startOrder' = startOrder
          /\ IsPrefix(task_queue_, task_queue_')
          /\ \A id \in Range(task_queue_) : execs'[id] = 0]_vars

\* The destructor has returned, every worker has left its loop, and a task
\* the peer pushed after the drain is still queued, not executed.
TerminateLeavesQueuedWitness ==
    /\ pc[Owner] = "dt_done"
    /\ should_terminate_
    /\ \A w \in Workers : pc[w] = "exited"
    /\ task_queue_ /= << >>
    /\ \A id \in Range(task_queue_) : execs[id] = 0 /\ ~Started(id)

\* C28: a worker that is inside task() does not hold queue_mutex_.
NoMutexDuringTask ==
    \A w \in Workers : pc[w] = "run" => w \notin queue_mutex_

\* Every worker of a pool of several threads is inside task() while a
\* client is inside the critical section of enqueue.
AllBusyWitness ==
    /\ num_threads >= 2
    /\ \A w \in Workers : pc[w] = "run" /\ cur[w] /= 0
    /\ \E c \in Clients : queue_mutex_ = {c} /\ pc[c] = "enq_cs"

\* C21: with its backend compiled in, filelock_lock and filelock_unlock on an
\* hdfs or s3 URI return Ok, make no backend call, change nothing and leave
\* the caller's lock handle as it was, for shared and exclusive requests;
\* only a file URI reaches the backend's lock.
RemoteLocksAreNoOps ==
    (Called("filelock_lock") \/ Called("filelock_unlock")) =>
        /\ ((uri_is_hdfs(op.uri) \/ uri_is_s3(op.uri)) /\ Compiled(op.uri)) =>
              /\ st = Ok
              /\ calls = << >>
              /\ fs = pre
              /\ fd = "untouched"
        /\ calls /= << >> => uri_is_file(op.uri)
        /\ fd /= "untouched" => uri_is_file(op.uri)

\* An exclusive lock was asked for on an existing s3 object and granted
\* without a backend call.
RemoteLockWitness ==
    /\ Called("filelock_lock")
    /\ ~op.shared
    /\ uri_is_s3(op.uri)
    /\ HAVE_S3
    /\ pre[op.uri].kind = "file"
    /\ st = Ok
    /\ calls = << >>

\* C22: create_bucket, remove_bucket, empty_bucket and is_empty_bucket on a
\* URI that is not an s3 URI return an error, make no backend call and
\* change nothing, and is_bucket is false, with no backend call, for every
\* URI that is not an s3 URI.
BucketsOnlyOnS3 ==
    /\ (BucketCall /\ ~uri_is_s3(op.uri)) =>
          /\ st.category = "VFSError"
          /\ st.message \in {CannotCreateBucket, CannotRemoveBucket}
          /\ calls = << >>
          /\ fs = pre
    /\ \A u \in Uris :
          ~uri_is_s3(u) => ~is_bucket(fs, u) /\ is_bucket_calls(u) = << >>

\* A bucket exists on s3 and a bucket function was refused for a local URI.
BucketWitness ==
    /\ BucketCall
    /\ uri_is_file(op.uri)
    /\ st = VFSError(CannotCreateBucket)
    /\ is_bucket(fs, Uri("s3", "a"))

(***************************************************************************)
(* The attribute and dimension iterators of the C API.                     *)
(* tiledb_attribute_iter_* and tiledb_dimension_iter_* are the same code   *)
(* up to the names attr/dim; the operators carry the attribute names and   *)
(* an iterator's kind says which family it belongs to. The iterator struct *)
(* holds attr_num_, current_attr_ and attr_, a malloc'ed                    *)
(* tiledb_attribute_t whose one field attr_ points to a copy of the        *)
(* current element. In the model attr_ is "null", "live" or "freed" (the   *)
(* pointer is kept but what it points to was released) and attr_attr_ is   *)
(* the field attr_->attr_.                                                 *)
(***************************************************************************)
Elems == 1..MaxElems

\* The schemas: every list of distinct elements.
Schemas ==
    {q \in UNION {[1..n -> Elems] : n \in 0..MaxElems} :
        \A i, j \in DOMAIN q : i /= j => q[i] /= q[j]}

IterKinds == {"attribute", "dimension"}

\* attr_->attr_: nullptr, a copy of element e made by new, or whatever a
\* released block holds once the allocator has reused it.
Null == [copy_of |-> 0]
Copy(e) == [copy_of |-> e]
Garbage == [copy_of |-> 0 - 1]

\* ArraySchema::attr(i), MetadataSchema::attr(i), ArraySchema::dim(i).
attr(sch, i) == sch[i + 1]

Out(name, value) == [name |-> name, value |-> value]

\* A store through attr_ into attr_->attr_. When attr_ was released the
\* store is undefined: the block keeps the value or it does not.
Stored(i, v, keeps) == IF i.attr_ = "freed" /\ ~keeps THEN Garbage ELSE v

iter_create(sch, kind) ==
    [kind |-> kind,
     attr_num_ |-> Len(sch),
     current_attr_ |-> 0,
     attr_ |-> IF Len(sch) <= 0 THEN "null" ELSE "live",
     attr_attr_ |-> IF Len(sch) <= 0 THEN Null ELSE Copy(attr(sch, 0))]

iter_done(i) == IF i.current_attr_ = i.attr_num_ THEN 1 ELSE 0

\* What here hands back: the pointer attr_ and what the caller finds
\* behind it.
iter_here(i) == [ptr |-> i.attr_, attr_ |-> i.attr_attr_]

\* A next that leaves the element copy as it was.
iter_next_stale(sch, i, keeps) == [i EXCEPT !.current_attr_ = @ + 1]

iter_next(sch, i, keeps) ==
    LET c == i.current_attr_ + 1
        v == IF c >= 0 /\ c < i.attr_num_ THEN Copy(attr(sch, c)) ELSE Null
    IN  IF i.attr_ /= "null"
        THEN [i EXCEPT !.current_attr_ = c, !.attr_attr_ = Stored(i, v, keeps)]
        ELSE [i EXCEPT !.current_attr_ = c]

\* next reads and writes attr_->attr_ whenever attr_ is not nullptr.
iter_next_touches(i) == i.attr_ = "freed"

\* first deletes attr_ itself (not attr_->attr_) when attr_->attr_ is not
\* nullptr, and then stores the copy of element 0 through attr_.
iter_first(sch, i, keeps) ==
    LET deleted == i.attr_ /= "null" /\ i.attr_attr_ /= Null
        j == [i EXCEPT !.current_attr_ = 0,
                       !.attr_ = IF deleted THEN "freed" ELSE @]
        v == IF i.attr_num_ > 0 THEN Copy(attr(sch, 0)) ELSE Null
    IN  IF i.attr_ /= "null"
        THEN [j EXCEPT !.attr_attr_ = Stored(j, v, keeps)]
        ELSE j

iter_first_touches(i) ==
    \/ i.attr_ = "freed"
    \/ i.attr_ = "live" /\ i.attr_attr_ /= Null

\* free reads attr_->attr_ and frees attr_ whenever attr_ is not nullptr.
iter_free_touches(i) == i.attr_ = "freed"

IterFrame == UNCHANGED <<schema, poolVars, vfsVars, ctxVars, qryVars>>

IterCreate ==
    /\ it = NoIter
    /\ \E kind \in IterKinds : it' = iter_create(schema, kind)
    /\ nexts' = 0
    /\ restarted' = FALSE
    /\ touched' = FALSE
    /\ reported' = FALSE
    /\ out' = Out("create", 0)
    /\ IterFrame

IterDone ==
    /\ it /= NoIter
    /\ out' = Out("done", iter_done(it))
    /\ reported' = (reported \/ iter_done(it) = 1)
    /\ UNCHANGED <<it, nexts, restarted, touched>>
    /\ IterFrame

IterNext ==
    /\ it /= NoIter
    /\ it.current_attr_ < it.attr_num_ + MaxOverrun
    /\ \E keeps \in BOOLEAN : it' = iter_next(schema, it, keeps)
    /\ nexts' = nexts + 1
    /\ touched' = (touched \/ iter_next_touches(it))
    /\ out' = Out("next", 0)
    /\ UNCHANGED <<restarted, reported>>
    /\ IterFrame

IterHere ==
    /\ it /= NoIter
    /\ out' = Out("here", iter_here(it))
    /\ UNCHANGED <<it, nexts, restarted, touched, reported>>
    /\ IterFrame

IterFirst ==
    /\ it /= NoIter
    /\ \E keeps \in BOOLEAN : it' = iter_first(schema, it, keeps)
    /\ nexts' = 0
    /\ restarted' = TRUE
    /\ touched' = (touched \/ iter_first_touches(it))
    /\ reported' = FALSE
    /\ out' = Out("first", 0)
    /\ IterFrame

IterFree ==
    /\ it /= NoIter
    /\ it' = NoIter
    /\ touched' = (touched \/ iter_free_touches(it))
    /\ out' = Out("free", 0)
    /\ UNCHANGED <<nexts, restarted, reported>>
    /\ IterFrame

InitIter ==
    /\ PoolInit(1)
    /\ NoVfs
    /\ schema \in Schemas
    /\ it = NoIter
    /\ nexts = 0
    /\ restarted = FALSE
    /\ touched = FALSE
    /\ reported = FALSE
    /\ out = NoOut
    /\ NoCtxs
    /\ NoQueries

NextIter ==
    \/ IterCreate
    \/ IterDone
    \/ IterNext
    \/ IterHere
    \/ IterFirst
    \/ IterFree

SpecIter == InitIter /\ [][NextIter]_vars

\* After k next calls the iterator is done exactly when k is the number of
\* elements, and before that here yields a live copy of element k.
AtElement(k) ==
    /\ it.attr_num_ = Len(schema)
    /\ iter_done(it) = 1 <=> k = Len(schema)
    /\ k < Len(schema) =>
          iter_here(it) = [ptr |-> "live", attr_ |-> Copy(schema[k + 1])]
    /\ out.name = "done" => (out.value = 1 <=> k = Len(schema))
    /\ (out.name = "here" /\ k < Len(schema)) =>
          out.value = [ptr |-> "live", attr_ |-> Copy(schema[k + 1])]

\* C25: from creation, after k <= n next calls the iterator stands on
\* element k of the schema's n elements in insertion order, here yields a
\* copy of that element, and done is 1 exactly after n next calls; with
\* n = 0 done is 1 right after creation.
TraversalInOrder ==
    (it /= NoIter /\ ~restarted /\ nexts <= Len(schema)) =>
        AtElement(nexts) /\ ~touched

\* A traversal of a schema of two or more elements has reached the end and
\* done has reported 1.
TraversalWitness ==
    /\ it /= NoIter
    /\ ~restarted
    /\ Len(schema) >= 2
    /\ nexts = Len(schema)
    /\ out = Out("done", 1)

\* A schema without elements: done reports 1 right after creation.
EmptyTraversalWitness ==
    /\ it /= NoIter
    /\ Len(schema) = 0
    /\ nexts = 0
    /\ out = Out("done", 1)

\* C24: after first the iterator stands on element 0 again and a following
\* traversal yields the whole sequence, and no call made on an iterator,
\* first and free included, accesses memory released before.
Restartable ==
    /\ ~touched
    /\ (it /= NoIter /\ restarted /\ nexts <= Len(schema)) => AtElement(nexts)

\* first on an iterator that had run to its end: the one case where first
\* releases nothing.
RestartAtEndWitness ==
    /\ it /= NoIter
    /\ restarted
    /\ ~touched
    /\ Len(schema) >= 1
    /\ out.name = "here"
    /\ nexts = 0

\* C29: once done has reported 1 it keeps being 1 under next until first
\* is called, and the position never exceeds the number of elements.
DoneStable ==
    it /= NoIter =>
        /\ reported => iter_done(it) = 1
        /\ it.current_attr_ <= it.attr_num_

(***************************************************************************)
(* The context, its last error, and the runtime handles of the C API.      *)
(* A call is an operator from the context and the call's inputs (the       *)
(* Status the storage manager returns, whether malloc succeeds) to the     *)
(* context after it, the return code, the error handed back, the failure   *)
(* the call ended with, and what became of the handle struct.              *)
(***************************************************************************)
InvalidCtx == Error("Invalid TileDB context")
FailedAllocErr == Error("Failed to allocate error struct")

\* The failure of a call that returns TILEDB_OOM or TILEDB_ERR for a failed
\* malloc and makes no Status of it.
OutOfMemory == [category |-> "OOM", message |-> "malloc returned nullptr"]

\* What the storage manager returns to a call.
ApiStatuses == {Ok, Error("e1"), IOError("e2")}

save_error(c, s) == IF s = Ok THEN c ELSE [c EXCEPT !.last_error_ = s]

ApiRet(c, rc, err, failure, h) ==
    [ctx |-> c, rc |-> rc, err |-> err, failure |-> failure, handle |-> h]

\* SANITY_CHECK_CTX for a context that is not nullptr.
SANITY_CHECK_CTX(c, h, rest) ==
    IF c.storage_manager_ = "null"
    THEN ApiRet(save_error(c, InvalidCtx), "TILEDB_ERR", Unset, InvalidCtx, h)
    ELSE rest

\* 'if (save_error(ctx, s)) return TILEDB_ERR; return TILEDB_OK'.
Saved(c, s, h) ==
    IF s /= Ok
    THEN ApiRet(save_error(c, s), "TILEDB_ERR", Unset, s, h)
    ELSE ApiRet(c, "TILEDB_OK", Unset, NullError, h)

\* tiledb_ctx_create once its malloc has succeeded; s is what
\* StorageManager::init returns.
tiledb_ctx_create(s) ==
    LET c == [storage_manager_ |-> "live", last_error_ |-> NullError]
    IN  IF s /= Ok
        THEN ApiRet([save_error(c, s) EXCEPT !.storage_manager_ = "null"],
                    "TILEDB_ERR", Unset, s, NoHandle)
        ELSE ApiRet(c, "TILEDB_OK", Unset, NullError, NoHandle)

tiledb_group_create(c, s) == SANITY_CHECK_CTX(c, NoHandle, Saved(c, s, NoHandle))

tiledb_error_last(c, malloc_ok) ==
    SANITY_CHECK_CTX(c, NoHandle,
        IF c.last_error_ = NullError
        THEN ApiRet(c, "TILEDB_OK", NullError, NullError, NoHandle)
        ELSE IF ~malloc_ok
        THEN ApiRet(save_error(c, FailedAllocErr), "TILEDB_OOM", NullError,
                    FailedAllocErr, NoHandle)
        ELSE ApiRet(c, "TILEDB_OK", c.last_error_, NullError, NoHandle))

\* The init functions: malloc the handle struct, call the storage manager,
\* free the struct when that fails. Only tiledb_metadata_init checks the
\* context. tiledb_array_init tests the wrong pointer after malloc and
\* writes through nullptr when malloc fails, so it is called with
\* malloc_ok only.
Live == [state |-> "live", frees |-> 0]
InitRest(c, s) ==
    IF s /= Ok
    THEN ApiRet(save_error(c, s), "TILEDB_ERR", Unset, s, NoHandle)
    ELSE ApiRet(c, "TILEDB_OK", Unset, NullError, Live)

tiledb_array_init(c, malloc_ok, s) == InitRest(c, s)

tiledb_array_iterator_init(c, malloc_ok, s) ==
    IF ~malloc_ok
    THEN ApiRet(c, "TILEDB_OOM", Unset, OutOfMemory, NoHandle)
    ELSE InitRest(c, s)

tiledb_metadata_init(c, malloc_ok, s) ==
    SANITY_CHECK_CTX(c, NoHandle,
        IF ~malloc_ok
        THEN ApiRet(c, "TILEDB_OOM", Unset, OutOfMemory, NoHandle)
        ELSE InitRest(c, s))

tiledb_metadata_iterator_init(c, malloc_ok, s) ==
    IF ~malloc_ok
    THEN ApiRet(c, "TILEDB_ERR", Unset, OutOfMemory, NoHandle)
    ELSE InitRest(c, s)

tiledb_init(k, c, malloc_ok, s) ==
    CASE k = "array" -> tiledb_array_init(c, malloc_ok, s)
      [] k = "array_iterator" -> tiledb_array_iterator_init(c, malloc_ok, s)
      [] k = "metadata" -> tiledb_metadata_init(c, malloc_ok, s)
      [] k = "metadata_iterator" -> tiledb_metadata_iterator_init(c, malloc_ok, s)

\* The finalize functions: free the struct and return TILEDB_ERR when the
\* storage manager fails; at_end is the free() in front of the final
\* 'return TILEDB_OK'.
Finalized(n) == [state |-> "finalized", frees |-> n]
FinalizeWith(c, s, at_end) ==
    IF s /= Ok
    THEN ApiRet(save_error(c, s), "TILEDB_ERR", Unset, s, Finalized(1))
    ELSE ApiRet(c, "TILEDB_OK", Unset, NullError, Finalized(at_end))

tiledb_array_finalize(c, s) == FinalizeWith(c, s, 1)
tiledb_array_iterator_finalize(c, s) == FinalizeWith(c, s, 1)
tiledb_metadata_finalize(c, s) == FinalizeWith(c, s, 0)
tiledb_metadata_iterator_finalize(c, s) == FinalizeWith(c, s, 1)

tiledb_finalize(k, c, s) ==
    CASE k = "array" -> tiledb_array_finalize(c, s)
      [] k = "array_iterator" -> tiledb_array_iterator_finalize(c, s)
      [] k = "metadata" -> tiledb_metadata_finalize(c, s)
      [] k = "metadata_iterator" -> tiledb_metadata_iterator_finalize(c, s)

CtxFrame == UNCHANGED <<poolVars, vfsVars, iterVars, qryVars>>

\* A call returns: the context is what the call left, and a call that did
\* not return TILEDB_OK is now the latest that failed.
CtxDo(name, r) ==
    /\ ctx' = r.ctx
    /\ latest' = IF r.rc /= "TILEDB_OK" THEN r.failure ELSE latest
    /\ oom' = (oom \/ r.failure \in {OutOfMemory, FailedAllocErr})
    /\ cres' = [name |-> name, rc |-> r.rc, err |-> r.err, expected |-> latest]
    /\ CtxFrame

CtxCreate ==
    /\ ctx = NoCtx
    /\ \E s \in ApiStatuses : CtxDo("tiledb_ctx_create", tiledb_ctx_create(s))
    /\ UNCHANGED handles

\* tiledb_ctx_free, called once no handle is live.
CtxFree ==
    /\ ctx /= NoCtx
    /\ \A k \in HandleKinds : handles[k].state /= "live"
    /\ ctx' = NoCtx
    /\ handles' = [k \in HandleKinds |-> NoHandle]
    /\ latest' = NullError
    /\ oom' = FALSE
    /\ cres' = NoRes
    /\ CtxFrame

GroupCreate ==
    /\ ctx /= NoCtx
    /\ \E s \in ApiStatuses :
          CtxDo("tiledb_group_create", tiledb_group_create(ctx, s))
    /\ UNCHANGED handles

ErrorLast ==
    /\ ctx /= NoCtx
    /\ \E malloc_ok \in BOOLEAN :
          CtxDo("tiledb_error_last", tiledb_error_last(ctx, malloc_ok))
    /\ UNCHANGED handles

\* The init functions that do not check the context are called with a
\* context whose storage manager exists.
HandleInit ==
    \E k \in HandleKinds, malloc_ok \in BOOLEAN, s \in ApiStatuses :
        /\ ctx /= NoCtx
        /\ k /= "metadata" => ctx.storage_manager_ = "live"
        /\ k = "array" => malloc_ok
        /\ handles[k].state /= "live"
        /\ LET r == tiledb_init(k, ctx, malloc_ok, s)
           IN  /\ CtxDo("tiledb_init", r)
               /\ handles' = [handles EXCEPT ![k] = r.handle]

HandleFinalize ==
    \E k \in HandleKinds, s \in ApiStatuses :
        /\ handles[k].state = "live"
        /\ LET r == tiledb_finalize(k, ctx, s)
           IN  /\ CtxDo("tiledb_finalize", r)
               /\ handles' = [handles EXCEPT ![k] = r.handle]

InitCtx ==
    /\ PoolInit(1)
    /\ NoVfs
    /\ NoIters
    /\ NoCtxs
    /\ NoQueries

NextCtx ==
    \/ CtxCreate
    \/ CtxFree
    \/ GroupCreate
    \/ ErrorLast
    \/ HandleInit
    \/ HandleFinalize

SpecCtx == InitCtx /\ [][NextCtx]_vars

\* C26: the context's last error is the failure of the latest call on it
\* that failed, nullptr when none has, and tiledb_error_last hands back a
\* copy of it (a null error when none has failed).
LastErrorIsLatestFailure ==
    ctx /= NoCtx =>
        /\ ctx.last_error_ = latest
        /\ cres.name = "tiledb_error_last" => cres.err = cres.expected

\* On a context whose creation succeeded, and as long as no malloc has
\* failed, the last error is the latest failure and tiledb_error_last
\* hands it back.
LastErrorWithMemory ==
    (~oom /\ ctx.storage_manager_ = "live") => LastErrorIsLatestFailure

\* A call has succeeded after one that failed and tiledb_error_last has
\* handed back the earlier failure.
LastErrorWitness ==
    /\ ctx /= NoCtx
    /\ ~oom
    /\ cres.name = "tiledb_error_last"
    /\ cres.rc = "TILEDB_OK"
    /\ cres.err = IOError("e2")
    /\ \E k \in HandleKinds : handles[k].state = "live"

\* C30: a finalize call frees the handle struct exactly once, whether the
\* storage manager's finalize succeeds or fails, for each of the four kinds
\* of handle.
FinalizeFreesOnce ==
    \A k \in HandleKinds : handles[k].state = "finalized" => handles[k].frees = 1

\* The same for the three kinds that are not metadata handles.
FinalizeFreesOnceButMetadata ==
    \A k \in HandleKinds \ {"metadata"} :
        handles[k].state = "finalized" => handles[k].frees = 1

\* A finalize whose storage-manager call failed has returned.
FinalizeFailedWitness ==
    /\ cres.name = "tiledb_finalize"
    /\ cres.rc = "TILEDB_ERR"
    /\ handles["array_iterator"] = Finalized(1)

(***************************************************************************)
(* A read query submitted until it is no longer incomplete: the loop of    *)
(* tiledb_dense_read_subset_incomplete.c. The array is the 4 x 4 array of  *)
(* that example with 2 x 2 tiles, dense and written in global order with   *)
(* a1 = 0..15, or sparse over the same domain with only its diagonal cells *)
(* written. The query engine behind tiledb_query_submit follows the read   *)
(* path of the specification.                                              *)
(***************************************************************************)
Side == 4
Extent == 2

\* The value of a1 in cell (r, c): tiles in row-major order, cells in
\* row-major order inside a tile.
a1(r, c) ==
    LET tile == ((r - 1) \div Extent) * (Side \div Extent) + ((c - 1) \div Extent)
        cell == ((r - 1) % Extent) * Extent + ((c - 1) % Extent)
    IN  tile * Extent * Extent + cell

\* The cells an array holds.
Written(array_type, r, c) == array_type = "dense" \/ r = c

Subarrays ==
    {sa \in [rlo : 1..Side, rhi : 1..Side, clo : 1..Side, chi : 1..Side] :
        sa.rlo <= sa.rhi /\ sa.clo <= sa.chi}

\* The coordinates of a subarray in the requested cell order.
CoordsOf(sa, layout) ==
    LET nr == sa.rhi - sa.rlo + 1
        nc == sa.chi - sa.clo + 1
    IN  [i \in 1..(nr * nc) |->
            IF layout = "TILEDB_COL_MAJOR"
            THEN <<sa.rlo + ((i - 1) % nr), sa.clo + ((i - 1) \div nr)>>
            ELSE <<sa.rlo + ((i - 1) \div nc), sa.clo + ((i - 1) % nc)>>]

\* The full result of a query: the values of the cells its subarray holds,
\* in the requested order.
ResultOf(q) ==
    LET held(rc) == Written(q.array_type, rc[1], rc[2])
        coords == SelectSeq(CoordsOf(q.subarray, q.layout), held)
    IN  [i \in 1..Len(coords) |-> a1(coords[i][1], coords[i][2])]

\* A submission that starts over from the first cell.
query_submit_restart(q) ==
    LET res == ResultOf(q)
        n == Min(q.capacity, Len(res))
    IN  [query |-> [q EXCEPT !.pos = n,
                             !.status = IF n < Len(res) THEN "TILEDB_INCOMPLETE"
                                        ELSE "TILEDB_COMPLETED"],
         buffer |-> SubSeq(res, 1, n)]

\* tiledb_query_submit on a read query: copy cells from the remembered
\* position until the buffer is full; incomplete when cells are left.
query_submit(q) ==
    LET res == ResultOf(q)
        n == Min(q.capacity, Len(res) - q.pos)
    IN  [query |-> [q EXCEPT !.pos = q.pos + n,
                             !.status = IF q.pos + n < Len(res)
                                        THEN "TILEDB_INCOMPLETE"
                                        ELSE "TILEDB_COMPLETED"],
         buffer |-> SubSeq(res, q.pos + 1, q.pos + n)]

QueryFrame == UNCHANGED <<poolVars, vfsVars, iterVars, ctxVars>>

\* The body of the do-while loop up to the printing of the cells.
QuerySubmit ==
    /\ loop_pc = "submit"
    /\ LET r == query_submit(query)
       IN  /\ query' = r.query
           /\ submitted' = Append(submitted,
                                  [cells |-> r.buffer, status |-> r.query.status])
    /\ loop_pc' = "status"
    /\ QueryFrame

\* tiledb_query_get_attribute_status and the loop's condition.
QueryGetStatus ==
    /\ loop_pc = "status"
    /\ loop_pc' = IF query.status = "TILEDB_INCOMPLETE" THEN "submit" ELSE "exit"
    /\ UNCHANGED <<query, submitted>>
    /\ QueryFrame

QueryFree ==
    /\ loop_pc = "exit"
    /\ loop_pc' = "freed"
    /\ UNCHANGED <<query, submitted>>
    /\ QueryFrame

InitQuery ==
    /\ PoolInit(1)
    /\ NoVfs
    /\ NoIters
    /\ NoCtxs
    /\ query \in [array_type : {"dense", "sparse"},
                  subarray : Subarrays,
                  layout : {"TILEDB_ROW_MAJOR", "TILEDB_COL_MAJOR"},
                  capacity : 1..MaxCapacity,
                  pos : {0},
                  status : {"TILEDB_UNINITIALIZED"}]
    /\ submitted = << >>
    /\ loop_pc = "submit"

NextQuery ==
    \/ QuerySubmit
    \/ QueryGetStatus
    \/ QueryFree

SpecQuery == InitQuery /\ [][NextQuery]_vars

\* The loop runs as long as it can.
FairSpecQuery == SpecQuery /\ WF_vars(NextQuery)

RECURSIVE Concat(_)
Concat(chunks) ==
    IF chunks = << >> THEN << >>
    ELSE Head(chunks).cells \o Concat(Tail(chunks))

Exited == loop_pc \in {"exit", "freed"}

\* Every submission but the last made so far reported INCOMPLETE, and the
\* chunks returned so far are the first cells of the full result, in order.
ChunksInOrder ==
    /\ \A i \in 1..(Len(submitted) - 1) :
          submitted[i].status = "TILEDB_INCOMPLETE"
    /\ Concat(submitted) = SubSeq(ResultOf(query), 1, query.pos)

\* The loop has ended after n submissions, the last reported COMPLETED and
\* the chunks make up the full result.
EndedAfter(n) ==
    /\ Len(submitted) = n
    /\ submitted[n].status = "TILEDB_COMPLETED"
    /\ Concat(submitted) = ResultOf(query)

CeilDiv(a, b) == (a + b - 1) \div b

\* C23 as stated: for a result of R cells and a buffer of c >= 1 cells the
\* loop ends after ceil(R / c) submissions, all but the last INCOMPLETE and
\* the last COMPLETED, the chunks making up the full result in order.
ResumesInCeilSubmissions ==
    /\ [](ChunksInOrder /\
          (Exited => EndedAfter(CeilDiv(Len(ResultOf(query)), query.capacity))))
    /\ <>Exited

\* C23, amended: the same for R >= 1; for an empty result the loop ends
\* after its one submission, which reports COMPLETED and returns no cell.
ResumesUntilCompleted ==
    /\ [](ChunksInOrder /\
          (Exited => EndedAfter(Max(1, CeilDiv(Len(ResultOf(query)),
                                               query.capacity)))))
    /\ <>Exited

\* The example's run: three submissions return 9 11, 12 14 and 13 15.
ExampleWitness ==
    /\ loop_pc = "exit"
    /\ query.subarray = [rlo |-> 3, rhi |-> 4, clo |-> 2, chi |-> 4]
    /\ submitted =
          << [cells |-> <<9, 11>>, status |-> "TILEDB_INCOMPLETE"],
             [cells |-> <<12, 14>>, status |-> "TILEDB_INCOMPLETE"],
             [cells |-> <<13, 15>>, status |-> "TILEDB_COMPLETED"] >>

\* A query with an empty result has been submitted once and the loop has
\* ended.
EmptyResultWitness ==
    /\ loop_pc = "exit"
    /\ ResultOf(query) = << >>
    /\ Len(submitted) = 1

====
